---- MODULE Spec2Model ----
(***************************************************************************)
(* Metaville / v01d player-profile backend.                                *)
(*                                                                         *)
(* The repository holds several variants of one small HTTP API over a      *)
(* PostgreSQL table of players.  Each variant is a program of its own; the *)
(* module gives one specification per variant:                             *)
(*                                                                         *)
(*   Spec        src/unnamed/part_003 lines 73-195: the normalizing        *)
(*               single-statement upsert sync and the upsert fetch,        *)
(*               one request after the other.                              *)
(*   SpecRace    the same two handlers with requests in flight together    *)
(*               (a handler runs up to its await, the statement runs       *)
(*               atomically in the database, then the response is sent).   *)
(*   SpecTxn     src/unnamed/part_000 lines 451-550: the transactional     *)
(*               UPDATE-then-INSERT sync, statement by statement, under    *)
(*               PostgreSQL's READ COMMITTED isolation.                    *)
(*   SpecServer  src/API/server.js lines 147-305: the SELECT-then-INSERT   *)
(*               fetch (ensure=1) and the transactional COALESCE sync.     *)
(*                                                                         *)
(* JavaScript values are tagged records, so that a number, a string, null  *)
(* and a missing property stay distinct and every conversion (Number(),    *)
(* trim(), ||, ??) is computed the way the engine computes it.             *)
(***************************************************************************)
EXTENDS Integers, Sequences, FiniteSets, TLC

VARIABLES
    players,    \* the committed rows of the players table, in insertion order
    now,        \* the database clock: now() of the next statement
    last,       \* history: the request handled last (Spec)
    seen,       \* history: per telegram id, the latest value submitted for each stats key
    req,        \* the requests in flight and answered (SpecRace, SpecTxn, SpecServer)
    txw,        \* per request, the uncommitted write of its open transaction
    base        \* history: the table before the first request in flight arrived

vars == <<players, now, last, seen, req, txw, base>>

-----------------------------------------------------------------------------
(* Bounds of the model *)

\* statements executed in one behaviour (the clock stops the behaviour there)
MaxClock == 3
\* requests in flight together
MaxReq == 2

-----------------------------------------------------------------------------
(* JavaScript values *)

Absent == [absent |-> TRUE]
Null == [null |-> TRUE]
NaN == [nan |-> TRUE]
Num(n) == [num |-> n]
Str(s) == [str |-> s]
Obj(f) == [obj |-> f]
Arr(s) == [arr |-> s]

IsNum(v) == "num" \in DOMAIN v
IsStr(v) == "str" \in DOMAIN v
IsObj(v) == "obj" \in DOMAIN v
IsArr(v) == "arr" \in DOMAIN v

EmptyObj == [k \in {} |-> 0]

\* (a string is the sequence of its characters)

\* JS truthiness: undefined, null, NaN, 0 and "" are falsy
Truthy(v) ==
    /\ v # Absent
    /\ v # Null
    /\ v # NaN
    /\ v # Num(0)
    /\ v # Str(<<>>)

\* o[k] of a JS object; a missing property is undefined
Get(o, k) == IF IsObj(o) /\ k \in DOMAIN o.obj THEN o.obj[k] ELSE Absent

RECURSIVE TrimLeft(_)
TrimLeft(s) ==
    IF s # <<>> /\ Head(s) = " " THEN TrimLeft(Tail(s)) ELSE s

RECURSIVE TrimRight(_)
TrimRight(s) ==
    IF s # <<>> /\ s[Len(s)] = " " THEN TrimRight(SubSeq(s, 1, Len(s) - 1)) ELSE s

\* String.prototype.trim
Trim(s) == TrimRight(TrimLeft(s))

DigitValue ==
    [c \in {"0", "1", "2", "3", "4", "5", "6", "7", "8", "9"} |->
        CASE c = "0" -> 0 [] c = "1" -> 1 [] c = "2" -> 2 [] c = "3" -> 3
          [] c = "4" -> 4 [] c = "5" -> 5 [] c = "6" -> 6 [] c = "7" -> 7
          [] c = "8" -> 8 [] c = "9" -> 9]

RECURSIVE DecimalValue(_)
DecimalValue(s) ==
    IF s = <<>> THEN 0
    ELSE 10 * DecimalValue(SubSeq(s, 1, Len(s) - 1)) + DigitValue[s[Len(s)]]

\* Number(v): a number is itself; a string is read without the white space
\* around it, "" as 0, digits as their value, any other string as NaN;
\* null is 0; undefined and an object are NaN
ToNumber(v) ==
    CASE IsNum(v) -> v
      [] IsStr(v) ->
            IF \A i \in DOMAIN Trim(v.str) : Trim(v.str)[i] \in DOMAIN DigitValue
            THEN Num(DecimalValue(Trim(v.str)))
            ELSE NaN
      [] v = Null -> Num(0)
      [] OTHER -> NaN

-----------------------------------------------------------------------------
(* SQL expressions *)

Greatest(a, b) == IF a >= b THEN a ELSE b

Coalesce(a, b) == IF a = Null THEN b ELSE a

\* jsonb || jsonb on two objects: the right operand's keys win
JsonbConcat(a, b) == b @@ a

NoRow == [norow |-> TRUE]

\* the positions of the rows whose telegram_id is tg
RowsByTg(tbl, tg) == {i \in DOMAIN tbl : tbl[i].telegram_id = tg}

RowByTg(tbl, tg) ==
    IF RowsByTg(tbl, tg) = {} THEN NoRow
    ELSE tbl[CHOOSE i \in RowsByTg(tbl, tg) : TRUE]

\* the columns a profile consists of, last_login and the keys left out
Profile(row) ==
    [callsign |-> row.callsign, level |-> row.level, exp |-> row.exp,
     resources |-> row.resources, progress |-> row.progress, stats |-> row.stats]

-----------------------------------------------------------------------------
(* Requests *)

TgIds == {1, 2}

\* a request with nothing in it: no identity in body, query or header, no field
EmptyReq ==
    [telegramId |-> Absent, tg |-> Absent, init |-> Absent,
     callsign |-> Absent, level |-> Absent, exp |-> Absent,
     resources |-> Absent, progress |-> Absent, stats |-> Absent]

ContentFields == {"callsign", "level", "exp", "resources", "progress", "stats"}

\* what a client submits for each field (integers in the range of the columns)
FieldValues ==
    [callsign |-> {Str(<<" ">>), Str(<<" ", "T", " ">>)},
     level |-> {Num(-1), Num(0), Num(2)},
     exp |-> {Num(-1), Num(1), Num(2), Str(<<"x">>)},
     resources |-> {Obj([oxygen |-> Num(10), energy |-> Num(20)]),
                    Obj([oxygen |-> Num(-5), bio |-> Str(<<"x">>), junk |-> Num(7)])},
     progress |-> {Obj([q |-> 1]), Arr(<<1>>)},
     stats |-> {Obj([a |-> 1]), Obj([b |-> 2]), Obj([a |-> 3])}]

\* the fields of a request: none, or one of them (the statement treats every
\* column on its own, and a field left out is replaced by its default)
Contents ==
    {EmptyReq} \cup
    UNION {{[EmptyReq EXCEPT ![f] = v] : v \in FieldValues[f]} : f \in ContentFields}

\* where a request names its player: body.telegramId, ?tg= behind an unusable
\* body.telegramId, or nowhere
Identities ==
    {[telegramId |-> Num(1), tg |-> Absent],
     [telegramId |-> Str(<<"x">>), tg |-> Str(<<"2">>)],
     [telegramId |-> Absent, tg |-> Absent]}

Requests ==
    {[c EXCEPT !.telegramId = i.telegramId, !.tg = i.tg] : c \in Contents, i \in Identities}

Content(r) == [f \in ContentFields |-> r[f]]

\* the :telegramId segment of a fetch
PathIds == {Str(<<"1">>), Str(<<"2">>), Str(<<"x">>)}

-----------------------------------------------------------------------------
(* src/unnamed/part_003, lines 73-195: normalizing upsert *)

DEFAULT_RESOURCES ==
    [k \in {"bio", "mvc", "parts", "energy", "oxygen", "ice"} |-> 0]
DEFAULT_PROGRESS == EmptyObj
DEFAULT_STATS == EmptyObj

Citizen == <<"C", "i", "t", "i", "z", "e", "n">>

normalizeResources(src) ==
    IF Truthy(src) /\ (IsObj(src) \/ IsArr(src))
    THEN [k \in DOMAIN DEFAULT_RESOURCES |->
            LET v == ToNumber(Get(src, k))
            IN  IF IsNum(v) THEN v.num ELSE DEFAULT_RESOURCES[k]]
    ELSE DEFAULT_RESOURCES

normalizePlainObject(x, fallback) ==
    IF Truthy(x) /\ IsObj(x) THEN x.obj ELSE fallback

\* the user of the x-telegram-init-data header: BadJson when JSON.parse throws
BadJson == [badjson |-> TRUE]

pickTelegramId(r) ==
    IF Truthy(r.telegramId) /\ ToNumber(r.telegramId) # NaN
    THEN ToNumber(r.telegramId)
    ELSE IF Truthy(r.tg) /\ ToNumber(r.tg) # NaN
    THEN ToNumber(r.tg)
    ELSE IF Truthy(r.init) /\ Truthy(r.init.user) /\ r.init.user # BadJson
            /\ ToNumber(Get(r.init.user, "id")) # NaN
    THEN ToNumber(Get(r.init.user, "id"))
    ELSE Null

\* lines 131-139: the parameters of the statement
SyncCallsign(r) ==
    IF IsStr(r.callsign) /\ Truthy(Str(Trim(r.callsign.str)))
    THEN Trim(r.callsign.str)
    ELSE Citizen

\* a default of 0 in place of 1
SyncLevelZero(r) == IF Truthy(ToNumber(r.level)) THEN ToNumber(r.level).num ELSE 0

SyncLevel(r) == IF Truthy(ToNumber(r.level)) THEN ToNumber(r.level).num ELSE 1

SyncExp(r) == IF Truthy(ToNumber(r.exp)) THEN ToNumber(r.exp).num ELSE 0

\* the row proposed for insertion (EXCLUDED), lines 144-146 and 159
Excluded(tg, r, t) ==
    [telegram_id |-> tg,
     callsign |-> SyncCallsign(r),
     level |-> SyncLevel(r),
     exp |-> SyncExp(r),
     resources |-> normalizeResources(r.resources),
     progress |-> normalizePlainObject(r.progress, DEFAULT_PROGRESS),
     stats |-> normalizePlainObject(r.stats, DEFAULT_STATS),
     last_login |-> t]

\* ON CONFLICT (telegram_id) DO UPDATE SET ..., lines 147-156
\* level = EXCLUDED.level: the submitted level overwrites the stored one
ConflictLevelOverwrite(old, ex) == ex.level

ConflictLevel(old, ex) == Greatest(old.level, ex.level)

\* exp = players.exp + EXCLUDED.exp: the submitted exp taken as an increment
ConflictExpAdd(old, ex) == old.exp + ex.exp

\* exp = EXCLUDED.exp: the last writer's exp is stored
ConflictExpOverwrite(old, ex) == ex.exp

ConflictExp(old, ex) == Greatest(old.exp, ex.exp)

\* resources = COALESCE(players.resources, EXCLUDED.resources): the stored snapshot kept
ConflictResourcesKeep(old, ex) == old.resources

ConflictResources(old, ex) == ex.resources

\* stats = EXCLUDED.stats: the submitted stats replace the stored ones
ConflictStatsOverwrite(old, ex) == ex.stats

ConflictStats(old, ex) == JsonbConcat(old.stats, ex.stats)

OnConflictUpdate(old, ex) ==
    [old EXCEPT
        !.callsign = ex.callsign,   \* COALESCE(EXCLUDED.callsign, ...) of a non-null text
        !.level = ConflictLevel(old, ex),
        !.exp = ConflictExp(old, ex),
        !.resources = ConflictResources(old, ex),
        !.progress = ex.progress,
        !.stats = ConflictStats(old, ex),
        !.last_login = ex.last_login]

\* INSERT ... ON CONFLICT (telegram_id) DO UPDATE: one atomic statement
Upsert(tbl, ex) ==
    IF RowsByTg(tbl, ex.telegram_id) = {}
    THEN Append(tbl, ex)
    ELSE [i \in DOMAIN tbl |->
            IF tbl[i].telegram_id = ex.telegram_id
            THEN OnConflictUpdate(tbl[i], ex)
            ELSE tbl[i]]

\* the row the fetch proposes, lines 180-182 and 187
FetchExcluded(tg, t) ==
    [telegram_id |-> tg, callsign |-> Citizen, level |-> 1, exp |-> 0,
     resources |-> DEFAULT_RESOURCES, progress |-> DEFAULT_PROGRESS,
     stats |-> DEFAULT_STATS, last_login |-> t]

\* the fetch's INSERT with the DO UPDATE clause of the sync in place of its own
UpsertTouchAll(tbl, ex) == Upsert(tbl, ex)

\* ON CONFLICT (telegram_id) DO UPDATE SET last_login = now(), lines 183-184
UpsertTouch(tbl, ex) ==
    IF RowsByTg(tbl, ex.telegram_id) = {}
    THEN Append(tbl, ex)
    ELSE [i \in DOMAIN tbl |->
            IF tbl[i].telegram_id = ex.telegram_id
            THEN [tbl[i] EXCEPT !.last_login = ex.last_login]
            ELSE tbl[i]]

\* the stats keys a request submits
SubmittedStats(r) == IF IsObj(r.stats) THEN r.stats.obj ELSE EmptyObj

NoRequests == [i \in {} |-> 0]

\* POST /api/player/sync, lines 124-170, from request to response
SyncUpsert(r) ==
    LET id == pickTelegramId(r)
    IN  IF ~Truthy(id)
        THEN /\ last' = [op |-> "sync", status |-> 400, tg |-> Null, req |-> EmptyReq,
                         before |-> NoRow, repeat |-> FALSE]
             /\ UNCHANGED <<players, now, seen, req, txw, base>>
        ELSE /\ now < MaxClock
             /\ players' = Upsert(players, Excluded(id.num, r, now))
             /\ now' = now + 1
             /\ last' = [op |-> "sync", status |-> 200, tg |-> id, req |-> r,
                         before |-> RowByTg(players, id.num),
                         repeat |-> /\ last.op = "sync"
                                    /\ last.status = 200
                                    /\ last.tg = id
                                    /\ Content(last.req) = Content(r)]
             /\ seen' = [seen EXCEPT ![id.num] = SubmittedStats(r) @@ @]
             /\ UNCHANGED <<req, txw, base>>

\* GET /api/player/by-tg/:telegramId, lines 173-195
FetchUpsert(param) ==
    LET id == ToNumber(param)
    IN  IF ~Truthy(id)
        THEN /\ last' = [op |-> "fetch", status |-> 400, tg |-> Null, req |-> EmptyReq,
                         before |-> NoRow, repeat |-> FALSE]
             /\ UNCHANGED <<players, now, seen, req, txw, base>>
        ELSE /\ now < MaxClock
             /\ players' = UpsertTouch(players, FetchExcluded(id.num, now))
             /\ now' = now + 1
             /\ last' = [op |-> "fetch", status |-> 200, tg |-> id, req |-> EmptyReq,
                         before |-> RowByTg(players, id.num), repeat |-> FALSE]
             /\ UNCHANGED <<seen, req, txw, base>>

Init ==
    /\ players = <<>>
    /\ now = 0
    /\ last = [op |-> "none", status |-> 0, tg |-> Null, req |-> EmptyReq,
               before |-> NoRow, repeat |-> FALSE]
    /\ seen = [t \in TgIds |-> EmptyObj]
    /\ req = NoRequests
    /\ txw = NoRequests
    /\ base = <<>>

Next ==
    \/ \E r \in Requests : SyncUpsert(r)
    \/ \E p \in PathIds : FetchUpsert(p)

Spec == Init /\ [][Next]_vars

-----------------------------------------------------------------------------
(* Properties of the upsert sync, one request after the other (Spec) *)

\* the row of the player the last request named
LastRow == RowByTg(players, last.tg.num)

LastSyncOk == last.op = "sync" /\ last.status = 200

\* C1: monotonicity.  In every step of the upsert sync and of the by-tg fetch,
\* a telegram id that has a row keeps a row, and neither the stored level nor
\* the stored exp of that row is lower after the step than before it.
C1_LevelExpNeverDecrease ==
    [][\A t \in TgIds :
          RowByTg(players, t) # NoRow =>
            /\ RowByTg(players', t) # NoRow
            /\ RowByTg(players', t).level >= RowByTg(players, t).level
            /\ RowByTg(players', t).exp >= RowByTg(players, t).exp]_vars

\* a sync that carried a lower level than the stored one was answered 200
C1_Witness ==
    /\ LastSyncOk
    /\ last.before # NoRow
    /\ IsNum(last.req.level)
    /\ last.req.level.num < last.before.level
    /\ LastRow.level = last.before.level

\* C5: idempotence.  When the sync just answered carried the same fields for the
\* same telegram id as the sync answered right before it, the profile (callsign,
\* level, exp, resources, progress, stats) is what it was before this second sync.
C5_SamePayloadTwice ==
    last.repeat => Profile(LastRow) = Profile(last.before)

\* a payload with stats was applied twice in a row to a row that existed before
C5_Witness ==
    /\ last.repeat
    /\ IsObj(last.req.stats)
    /\ now = MaxClock

\* C6: stats accumulation.  The stored stats of a telegram id hold every key any
\* earlier sync of that id submitted, with the value of the latest sync that
\* submitted the key.
C6_StatsAccumulate ==
    \A t \in TgIds :
        \A k \in DOMAIN seen[t] :
            /\ RowByTg(players, t) # NoRow
            /\ k \in DOMAIN RowByTg(players, t).stats
            /\ RowByTg(players, t).stats[k] = seen[t][k]

\* stats {a}, then stats {b}, then a sync without stats: both keys are stored
C6_Witness ==
    /\ LastSyncOk
    /\ last.req.stats = Absent
    /\ last.before # NoRow
    /\ DOMAIN LastRow.stats = {"a", "b"}

\* C7: resources replace.  After a sync answered 200 whose resources is R, the
\* stored resources is normalizeResources(R): exactly the known names, a known
\* name holds the finite number R gives it and 0 when R has none, whatever was
\* stored before.
C7_ResourcesReplaced ==
    LastSyncOk =>
        LET R == last.req.resources
            stored == LastRow.resources
        IN  /\ stored = normalizeResources(R)
            /\ DOMAIN stored = {"bio", "mvc", "parts", "energy", "oxygen", "ice"}
            /\ \A k \in DOMAIN stored :
                    /\ Get(R, k) = Absent => stored[k] = 0
                    /\ IsNum(Get(R, k)) => stored[k] = Get(R, k).num

\* a stored energy of 20 was reset to 0 by a sync whose resources has no energy
C7_Witness ==
    /\ LastSyncOk
    /\ last.before # NoRow
    /\ last.before.resources["energy"] = 20
    /\ IsObj(last.req.resources)
    /\ "energy" \notin DOMAIN last.req.resources.obj
    /\ "junk" \in DOMAIN last.req.resources.obj
    /\ LastRow.resources["energy"] = 0

\* C8: first-sync defaults.  A sync that carries nothing but the identity, for a
\* telegram id without a row, leaves exactly one row of that id, with level 1,
\* exp 0, callsign "Citizen", every known resource at 0, progress {} and stats {}.
C8_FirstSyncDefaults ==
    (LastSyncOk /\ last.before = NoRow /\ Content(last.req) = Content(EmptyReq)) =>
        /\ Cardinality(RowsByTg(players, last.tg.num)) = 1
        /\ Profile(LastRow) =
              [callsign |-> <<"C", "i", "t", "i", "z", "e", "n">>,
               level |-> 1,
               exp |-> 0,
               resources |-> [k \in {"bio", "mvc", "parts", "energy", "oxygen", "ice"} |-> 0],
               progress |-> EmptyObj,
               stats |-> EmptyObj]

\* an identity-only sync created the second row of the table
C8_Witness ==
    /\ LastSyncOk
    /\ last.before = NoRow
    /\ Content(last.req) = Content(EmptyReq)
    /\ Len(players) = 2

-----------------------------------------------------------------------------
(* src/unnamed/part_003, lines 124-195, with requests in flight together.     *)
(* A handler runs without interruption up to its await (the request is read  *)
(* and normalized, the statement is sent); the database runs the statement   *)
(* atomically; the response is written when the result comes back.           *)

Slots == 1 .. MaxReq

IdleRequest ==
    [pc |-> "idle", op |-> "none", r |-> EmptyReq, tg |-> Null, status |-> 0,
     row |-> NoRow, with |-> {}]

\* requests arrive in the order of their slots
MayArrive(i) ==
    /\ req[i].pc = "idle"
    /\ IF i = 1 THEN TRUE ELSE req[i - 1].pc # "idle"

\* the requests whose statement is with the database
InFlight == {j \in Slots : req[j].pc = "query"}

\* the requests of the race: an identity, and level or exp or nothing
RaceRequests ==
    {r \in Requests :
        \A f \in ContentFields \ {"level", "exp"} : r[f] = Absent}

\* the tables the race starts from: empty, or holding the row one sync created
RaceTables ==
    {<<>>} \cup {Upsert(<<>>, Excluded(1, r, 0)) : r \in RaceRequests}

\* lines 125-139: up to the await of pool.query
RaceSyncStart(i, r) ==
    /\ MayArrive(i)
    /\ LET id == pickTelegramId(r)
       IN  req' = [req EXCEPT ![i] =
                IF ~Truthy(id)
                THEN [IdleRequest EXCEPT !.pc = "done", !.op = "sync", !.r = r,
                                         !.status = 400]
                ELSE [IdleRequest EXCEPT !.pc = "query", !.op = "sync", !.r = r,
                                         !.tg = id]]
    /\ UNCHANGED <<players, now, last, seen, txw, base>>

\* lines 142-165: the statement and the response
RaceSyncQuery(i) ==
    /\ req[i].pc = "query"
    /\ req[i].op = "sync"
    /\ players' = Upsert(players, Excluded(req[i].tg.num, req[i].r, now))
    /\ now' = now + 1
    /\ req' = [req EXCEPT ![i].pc = "done", ![i].status = 200,
                          ![i].row = RowByTg(players', req[i].tg.num),
                          ![i].with = InFlight \ {i}]
    /\ UNCHANGED <<last, seen, txw, base>>

\* lines 174-176
RaceFetchStart(i, param) ==
    /\ MayArrive(i)
    /\ LET id == ToNumber(param)
       IN  req' = [req EXCEPT ![i] =
                IF ~Truthy(id)
                THEN [IdleRequest EXCEPT !.pc = "done", !.op = "fetch", !.status = 400]
                ELSE [IdleRequest EXCEPT !.pc = "query", !.op = "fetch", !.tg = id]]
    /\ UNCHANGED <<players, now, last, seen, txw, base>>

\* lines 178-190
RaceFetchQuery(i) ==
    /\ req[i].pc = "query"
    /\ req[i].op = "fetch"
    /\ players' = UpsertTouch(players, FetchExcluded(req[i].tg.num, now))
    /\ now' = now + 1
    /\ req' = [req EXCEPT ![i].pc = "done", ![i].status = 200,
                          ![i].row = RowByTg(players', req[i].tg.num),
                          ![i].with = InFlight \ {i}]
    /\ UNCHANGED <<last, seen, txw, base>>

InitRace ==
    /\ base \in RaceTables
    /\ players = base
    /\ now = Len(base)
    /\ last = [op |-> "none", status |-> 0, tg |-> Null, req |-> EmptyReq,
               before |-> NoRow, repeat |-> FALSE]
    /\ seen = [t \in TgIds |-> EmptyObj]
    /\ req = [i \in Slots |-> IdleRequest]
    /\ txw = NoRequests

NextRace ==
    \/ \E i \in Slots, r \in RaceRequests : RaceSyncStart(i, r)
    \/ \E i \in Slots : RaceSyncQuery(i)
    \/ \E i \in Slots, p \in PathIds : RaceFetchStart(i, p)
    \/ \E i \in Slots : RaceFetchQuery(i)

SpecRace == InitRace /\ [][NextRace]_vars

Max(S) == CHOOSE x \in S : \A y \in S : x >= y

\* the syncs that named telegram id t
SyncsOf(t) == {i \in Slots : req[i].op = "sync" /\ req[i].tg = Num(t)}

\* nothing but answered syncs named t: no request for t is idle-bound or in flight
OnlySyncsDone(t) ==
    /\ \A i \in Slots : req[i].pc = "done"
    /\ \A i \in Slots : req[i].op = "fetch" => req[i].tg # Num(t)

\* what was stored for t before the requests arrived
BaseLevels(t) == IF RowByTg(base, t) = NoRow THEN {} ELSE {RowByTg(base, t).level}

BaseExps(t) == IF RowByTg(base, t) = NoRow THEN {} ELSE {RowByTg(base, t).exp}

\* C3: concurrent upserts.  When the syncs in flight for one telegram id have all
\* been answered, each was answered 200, and the stored exp is the largest of
\* the exp stored before and the exp each request bound to its statement
\* (Number(body.exp) || 0); the stored level likewise (Number(body.level) || 1).
C3_ConcurrentUpsertsKeepMax ==
    \A t \in TgIds :
        (OnlySyncsDone(t) /\ SyncsOf(t) # {}) =>
            /\ \A i \in SyncsOf(t) : req[i].status = 200
            /\ Cardinality(RowsByTg(players, t)) = 1
            /\ RowByTg(players, t).exp =
                  Max(BaseExps(t) \cup {SyncExp(req[i].r) : i \in SyncsOf(t)})
            /\ RowByTg(players, t).level =
                  Max(BaseLevels(t) \cup {SyncLevel(req[i].r) : i \in SyncsOf(t)})

\* two syncs of one id were with the database together; the one with the lower
\* exp ran last and was answered with the higher exp
C3_Witness ==
    \E i, j \in Slots :
        /\ i # j
        /\ req[i].pc = "done" /\ req[j].pc = "done"
        /\ req[i].op = "sync" /\ req[j].op = "sync"
        /\ req[i].tg = req[j].tg
        /\ j \in req[i].with
        /\ req[j].row.last_login > req[i].row.last_login
        /\ SyncExp(req[j].r) < SyncExp(req[i].r)
        /\ req[j].row.exp = SyncExp(req[i].r)
        /\ RowByTg(base, req[i].tg.num) = NoRow

-----------------------------------------------------------------------------
(* PostgreSQL, READ COMMITTED, as far as the transactional handlers use it.   *)
(* A transaction's write stays in txw until COMMIT.  An UPDATE sees committed *)
(* rows only; on a row another open transaction has updated it waits for that *)
(* transaction to end and then works on the row as committed.  An INSERT of a *)
(* key a committed row holds fails with unique_violation (23505); on a key    *)
(* another open transaction has inserted it waits for that transaction.       *)
(* now() is the start time of the transaction.                                *)

NoWrite == [kind |-> "none"]

\* another open transaction holds the lock of the row at idx
LockedByOther(i, idx) ==
    \E j \in Slots \ {i} : txw[j].kind = "update" /\ txw[j].idx = idx

\* another open transaction has inserted a row with telegram id tg
InsertingOther(i, tg) ==
    \E j \in Slots \ {i} : txw[j].kind = "insert" /\ txw[j].row.telegram_id = tg

\* the table once the write w is committed
Committed(tbl, w) ==
    CASE w.kind = "update" -> [tbl EXCEPT ![w.idx] = w.row]
      [] w.kind = "insert" -> Append(tbl, w.row)
      [] OTHER -> tbl

\* a parameter bound to a BIGINT column: NaN stands for invalid input syntax
SqlBigint(v) ==
    CASE IsNum(v) -> v
      [] IsStr(v) /\ Trim(v.str) # <<>> -> ToNumber(v)
      [] OTHER -> NaN

\* a parameter cast with ::json: node-postgres sends an object as its JSON
\* text and an array as an array literal, which is no JSON
SqlJsonOk(v) == IsObj(v)

IdleTxn ==
    [pc |-> "idle", op |-> "none", r |-> EmptyReq, status |-> 0, row |-> NoRow,
     t0 |-> 0, created |-> FALSE, param |-> Null, ensure |-> FALSE,
     acquired |-> 0, released |-> 0]

\* client.release() not reached: the client stays checked out
ClientReleaseSkipped(n) == n

\* client.release() in the finally block: one more release of the client
ClientRelease(n) == n + 1

\* the telegram ids a body carries: a number, a string that is no number, none
TxnIdentities == {Num(1), Num(2), Str(<<"x">>), Absent}

\* requests that name their player by body.telegramId alone (no solAddress)
\* and carry level or exp or nothing
TxnRequests ==
    {[r EXCEPT !.telegramId = id] :
        r \in {q \in RaceRequests : /\ q.tg = Absent
                                     /\ q.level \in {Absent, Num(-1)}
                                     /\ q.exp \in {Absent, Num(1), Num(2)}},
        id \in TxnIdentities}

-----------------------------------------------------------------------------
(* src/unnamed/part_000, lines 451-550: UPDATE, then INSERT when no row was   *)
(* updated, in one transaction.                                               *)

\* lines 460-465
P0_Callsign(r) ==
    IF r.callsign = Absent \/ r.callsign = Null THEN Str(Citizen) ELSE r.callsign

P0_Level(r) == IF IsNum(ToNumber(r.level)) THEN ToNumber(r.level).num ELSE 1

P0_Exp(r) == IF IsNum(ToNumber(r.exp)) THEN ToNumber(r.exp).num ELSE 0

P0_Json(v) == IF v = Absent \/ v = Null THEN Obj(EmptyObj) ELSE v

\* the statement's parameters are accepted by the column types
P0_ParamsOk(r) ==
    /\ SqlBigint(r.telegramId) # NaN
    /\ SqlJsonOk(P0_Json(r.resources))
    /\ SqlJsonOk(P0_Json(r.progress))
    /\ SqlJsonOk(P0_Json(r.stats))

\* UPDATE ... SET, lines 476-486, with solAddress null
P0_UpdateRow(old, r, t) ==
    [old EXCEPT
        !.callsign = Coalesce(P0_Callsign(r), old.callsign),
        !.level = Greatest(old.level, P0_Level(r)),
        !.exp = Greatest(old.exp, P0_Exp(r)),
        !.resources = P0_Json(r.resources).obj,
        !.progress = P0_Json(r.progress).obj,
        !.stats = JsonbConcat(old.stats, P0_Json(r.stats).obj),
        !.last_login = t]

\* INSERT ... VALUES, lines 498-503
P0_NewRow(r, t) ==
    [telegram_id |-> SqlBigint(r.telegramId).num,
     sol_address |-> Null,
     callsign |-> P0_Callsign(r),
     level |-> P0_Level(r),
     exp |-> P0_Exp(r),
     resources |-> P0_Json(r.resources).obj,
     progress |-> P0_Json(r.progress).obj,
     stats |-> P0_Json(r.stats).obj,
     last_login |-> t]

\* lines 452-467: up to the await of pool.connect()
P0_Start(i, r) ==
    /\ MayArrive(i)
    /\ req' = [req EXCEPT ![i] =
            IF ~Truthy(r.telegramId)
            THEN [IdleTxn EXCEPT !.pc = "done", !.op = "sync", !.r = r, !.status = 400]
            ELSE [IdleTxn EXCEPT !.pc = "connect", !.op = "sync", !.r = r]]
    /\ UNCHANGED <<players, now, last, seen, txw, base>>

\* lines 467-469: the client is handed out and BEGIN starts the transaction
P0_Begin(i) ==
    /\ req[i].pc = "connect"
    /\ req' = [req EXCEPT ![i].pc = "update", ![i].t0 = now,
                          ![i].acquired = @ + 1]
    /\ now' = now + 1
    /\ UNCHANGED <<players, last, seen, txw, base>>

\* lines 474-492: UPDATE ... WHERE telegram_id = $1
P0_Update(i) ==
    /\ req[i].pc = "update"
    /\ IF ~P0_ParamsOk(req[i].r)
       THEN /\ req' = [req EXCEPT ![i].pc = "rollback"]
            /\ UNCHANGED txw
       ELSE LET hit == RowsByTg(players, SqlBigint(req[i].r.telegramId).num)
            IN  IF hit = {}
                THEN /\ req' = [req EXCEPT ![i].pc = "insert"]
                     /\ UNCHANGED txw
                ELSE \E idx \in hit :
                        /\ ~LockedByOther(i, idx)
                        /\ txw' = [txw EXCEPT ![i] =
                                [kind |-> "update", idx |-> idx,
                                 row |-> P0_UpdateRow(players[idx], req[i].r, req[i].t0)]]
                        /\ req' = [req EXCEPT ![i].pc = "commit",
                                              ![i].row = txw'[i].row]
    /\ UNCHANGED <<players, now, last, seen, base>>

\* lines 495-506: INSERT when the UPDATE returned no row
P0_Insert(i) ==
    /\ req[i].pc = "insert"
    /\ ~InsertingOther(i, SqlBigint(req[i].r.telegramId).num)
    /\ IF RowsByTg(players, SqlBigint(req[i].r.telegramId).num) # {}
       THEN /\ req' = [req EXCEPT ![i].pc = "rollback"]
            /\ UNCHANGED txw
       ELSE /\ txw' = [txw EXCEPT ![i] =
                    [kind |-> "insert", row |-> P0_NewRow(req[i].r, req[i].t0)]]
            /\ req' = [req EXCEPT ![i].pc = "commit", ![i].row = txw'[i].row,
                                  ![i].created = TRUE]
    /\ UNCHANGED <<players, now, last, seen, base>>

\* lines 541-542 and 547-549: COMMIT, the response, the client released
P0_Commit(i) ==
    /\ req[i].pc = "commit"
    /\ players' = Committed(players, txw[i])
    /\ txw' = [txw EXCEPT ![i] = NoWrite]
    /\ req' = [req EXCEPT ![i].pc = "done", ![i].status = 200,
                          ![i].released = ClientRelease(@)]
    /\ UNCHANGED <<now, last, seen, base>>

\* lines 543-549: ROLLBACK, the 500 response, the client released
P0_Rollback(i) ==
    /\ req[i].pc = "rollback"
    /\ txw' = [txw EXCEPT ![i] = NoWrite]
    /\ req' = [req EXCEPT ![i].pc = "done", ![i].status = 500, ![i].row = NoRow,
                          ![i].created = FALSE,
                          ![i].released = ClientRelease(@)]
    /\ UNCHANGED <<players, now, last, seen, base>>

\* lines 544 and 547-549: the ROLLBACK itself fails (the connection is gone,
\* and with it the transaction): the catch block is left by the exception, no
\* response is sent, the finally block still releases the client
P0_RollbackFails(i) ==
    /\ req[i].pc = "rollback"
    /\ txw' = [txw EXCEPT ![i] = NoWrite]
    /\ req' = [req EXCEPT ![i].pc = "done", ![i].status = 0, ![i].row = NoRow,
                          ![i].created = FALSE,
                          ![i].released = ClientRelease(@)]
    /\ UNCHANGED <<players, now, last, seen, base>>

InitTxn ==
    /\ base = <<>>
    /\ players = <<>>
    /\ now = 0
    /\ last = [op |-> "none", status |-> 0, tg |-> Null, req |-> EmptyReq,
               before |-> NoRow, repeat |-> FALSE]
    /\ seen = [t \in TgIds |-> EmptyObj]
    /\ req = [i \in Slots |-> IdleTxn]
    /\ txw = [i \in Slots |-> NoWrite]

NextTxn ==
    \/ \E i \in Slots, r \in TxnRequests : P0_Start(i, r)
    \/ \E i \in Slots : P0_Begin(i)
    \/ \E i \in Slots : P0_Update(i)
    \/ \E i \in Slots : P0_Insert(i)
    \/ \E i \in Slots : P0_Commit(i)
    \/ \E i \in Slots : P0_Rollback(i)
    \/ \E i \in Slots : P0_RollbackFails(i)

SpecTxn == InitTxn /\ [][NextTxn]_vars

\* the transactional syncs that named telegram id t
TxnSyncsOf(t) ==
    {i \in Slots : req[i].op = "sync" /\ req[i].pc # "idle"
                   /\ SqlBigint(req[i].r.telegramId) = Num(t)}

\* C4: concurrent transactional syncs.  When the UPDATE-then-INSERT syncs in
\* flight for one telegram id have all finished, each was answered 200, and
\* the stored exp and level are the largest of the values the requests bound
\* to their statements: no writer's update is lost.
C4_ConcurrentTxnSyncsKeepMax ==
    \A t \in TgIds :
        (TxnSyncsOf(t) # {} /\ \A i \in Slots : req[i].pc \in {"idle", "done"}) =>
            /\ \A i \in TxnSyncsOf(t) : req[i].status = 200
            /\ RowByTg(players, t) # NoRow
            /\ RowByTg(players, t).exp = Max({P0_Exp(req[i].r) : i \in TxnSyncsOf(t)})
            /\ RowByTg(players, t).level = Max({P0_Level(req[i].r) : i \in TxnSyncsOf(t)})

-----------------------------------------------------------------------------
(* src/API/server.js, lines 147-305: the fetch that may create the player     *)
(* (SELECT, then INSERT, each its own statement on the pool) and the sync     *)
(* that runs UPDATE, then INSERT, in one transaction.                         *)

\* the :tg segment of a fetch
SrvPathIds == {Str(<<"1">>), Str(<<"2", " ">>), Str(<<"x">>)}

\* line 151: /^\d+$/
AllDigits(s) == s # <<>> /\ \A k \in 1..Len(s) : s[k] \in DOMAIN DigitValue

\* bodies of a sync: the fields of TxnRequests and the alias telegram_id
SrvRequests ==
    {r @@ [telegram_id |-> Absent] : r \in TxnRequests}
    \cup {[r EXCEPT !.telegramId = Absent] @@ [telegram_id |-> Num(2)] :
            r \in {q \in TxnRequests : q.telegramId = Num(1)}}

\* a ?? b
Nullish(a, b) == IF a = Absent \/ a = Null THEN b ELSE a

\* lines 205-212
Srv_TelegramId(r) == Nullish(r.telegramId, Nullish(r.telegram_id, Null))

\* a parameter bound to an INTEGER column or compared with one
SqlInt(v) == IF v = Null THEN Null ELSE SqlBigint(v)

Srv_ParamsOk(r) ==
    /\ SqlBigint(Srv_TelegramId(r)) # NaN
    /\ SqlInt(Nullish(r.level, Null)) # NaN
    /\ SqlInt(Nullish(r.exp, Null)) # NaN
    /\ \A f \in {"resources", "progress", "stats"} :
            Nullish(r[f], Null) = Null \/ SqlJsonOk(r[f])

\* the value a JSON parameter stores
Srv_Json(v) == IF Nullish(v, Null) = Null THEN Null ELSE v.obj

\* COALESCE over an INTEGER parameter
Srv_Int(v, old) == IF SqlInt(Nullish(v, Null)) = Null THEN old
                   ELSE SqlInt(Nullish(v, Null)).num

\* UPDATE ... SET, lines 227-235, with solAddress null
Srv_UpdateRow(old, r, t) ==
    [old EXCEPT
        !.callsign = Coalesce(Nullish(r.callsign, Null), old.callsign),
        !.level = Srv_Int(r.level, old.level),
        !.exp = Srv_Int(r.exp, old.exp),
        !.resources = Coalesce(Srv_Json(r.resources), old.resources),
        !.progress = Coalesce(Srv_Json(r.progress), old.progress),
        !.stats = JsonbConcat(Coalesce(old.stats, EmptyObj),
                              Coalesce(Srv_Json(r.stats), EmptyObj)),
        !.last_login = t]

\* INSERT ... VALUES, lines 251-254; last_login takes the column default now()
Srv_NewRow(r, t) ==
    [telegram_id |-> SqlBigint(Srv_TelegramId(r)).num,
     sol_address |-> Null,
     callsign |-> Nullish(r.callsign, Null),
     level |-> Srv_Int(r.level, 1),
     exp |-> Srv_Int(r.exp, 0),
     resources |-> Srv_Json(Nullish(r.resources, Obj(EmptyObj))),
     progress |-> Srv_Json(Nullish(r.progress, Obj(EmptyObj))),
     stats |-> Srv_Json(Nullish(r.stats, Obj(EmptyObj))),
     last_login |-> t]

\* line 167
SrvEnsureResources ==
    [oxygen |-> 200, energy |-> 600, mvc |-> 100, bio |-> 0, parts |-> 0, ice |-> 20]

\* lines 165-168 and 177-180: the row an ensuring fetch inserts
Srv_EnsureRow(tg, t) ==
    [telegram_id |-> tg,
     sol_address |-> Null,
     callsign |-> Str(Citizen),
     level |-> 1,
     exp |-> 0,
     resources |-> SrvEnsureResources,
     progress |-> EmptyObj,
     stats |-> EmptyObj,
     last_login |-> t]

\* lines 148-153: up to the await of the SELECT
Srv_FetchStart(i, param, ensure) ==
    /\ MayArrive(i)
    /\ req' = [req EXCEPT ![i] =
            IF ~AllDigits(Trim(param.str))
            THEN [IdleTxn EXCEPT !.pc = "done", !.op = "fetch", !.param = param,
                                 !.ensure = ensure, !.status = 400]
            ELSE [IdleTxn EXCEPT !.pc = "select", !.op = "fetch", !.param = param,
                                 !.ensure = ensure]]
    /\ UNCHANGED <<players, now, last, seen, txw, base>>

\* lines 153-162: the SELECT sees the committed rows
Srv_FetchSelect(i) ==
    /\ req[i].pc = "select"
    /\ LET found == RowByTg(players, DecimalValue(Trim(req[i].param.str)))
       IN  req' = [req EXCEPT ![i] =
                CASE found # NoRow -> [@ EXCEPT !.pc = "done", !.status = 200, !.row = found]
                  [] ~req[i].ensure -> [@ EXCEPT !.pc = "done", !.status = 404]
                  [] OTHER -> [@ EXCEPT !.pc = "insert"]]
    /\ UNCHANGED <<players, now, last, seen, txw, base>>

\* lines 164-187: the INSERT, a statement of its own, and the response
Srv_FetchInsert(i) ==
    /\ req[i].pc = "insert"
    /\ req[i].op = "fetch"
    /\ LET tg == DecimalValue(Trim(req[i].param.str))
       IN  /\ ~InsertingOther(i, tg)
           /\ IF RowsByTg(players, tg) # {}
              THEN /\ req' = [req EXCEPT ![i].pc = "done", ![i].status = 500]
                   /\ UNCHANGED players
              ELSE /\ players' = Append(players, Srv_EnsureRow(tg, now))
                   /\ req' = [req EXCEPT ![i].pc = "done", ![i].status = 200,
                                         ![i].row = Srv_EnsureRow(tg, now),
                                         ![i].created = TRUE]
    /\ now' = now + 1
    /\ UNCHANGED <<last, seen, txw, base>>

\* lines 204-218: up to the await of pool.connect()
Srv_SyncStart(i, r) ==
    /\ MayArrive(i)
    /\ req' = [req EXCEPT ![i] =
            IF ~Truthy(Srv_TelegramId(r))
            THEN [IdleTxn EXCEPT !.pc = "done", !.op = "sync", !.r = r, !.status = 400]
            ELSE [IdleTxn EXCEPT !.pc = "connect", !.op = "sync", !.r = r]]
    /\ UNCHANGED <<players, now, last, seen, txw, base>>

\* lines 218-220: the client is handed out and BEGIN starts the transaction
Srv_SyncBegin(i) ==
    /\ req[i].pc = "connect"
    /\ req' = [req EXCEPT ![i].pc = "update", ![i].t0 = now,
                          ![i].acquired = @ + 1]
    /\ now' = now + 1
    /\ UNCHANGED <<players, last, seen, txw, base>>

\* lines 226-240: UPDATE ... WHERE telegram_id = $1
Srv_SyncUpdate(i) ==
    /\ req[i].pc = "update"
    /\ IF ~Srv_ParamsOk(req[i].r)
       THEN /\ req' = [req EXCEPT ![i].pc = "rollback"]
            /\ UNCHANGED txw
       ELSE LET hit == RowsByTg(players, SqlBigint(Srv_TelegramId(req[i].r)).num)
            IN  IF hit = {}
                THEN /\ req' = [req EXCEPT ![i].pc = "insert"]
                     /\ UNCHANGED txw
                ELSE \E idx \in hit :
                        /\ ~LockedByOther(i, idx)
                        /\ txw' = [txw EXCEPT ![i] =
                                [kind |-> "update", idx |-> idx,
                                 row |-> Srv_UpdateRow(players[idx], req[i].r, req[i].t0)]]
                        /\ req' = [req EXCEPT ![i].pc = "commit",
                                              ![i].row = txw'[i].row]
    /\ UNCHANGED <<players, now, last, seen, base>>

\* lines 243-258: INSERT when the UPDATE returned no row
Srv_SyncInsert(i) ==
    /\ req[i].pc = "insert"
    /\ req[i].op = "sync"
    /\ ~InsertingOther(i, SqlBigint(Srv_TelegramId(req[i].r)).num)
    /\ IF RowsByTg(players, SqlBigint(Srv_TelegramId(req[i].r)).num) # {}
       THEN /\ req' = [req EXCEPT ![i].pc = "rollback"]
            /\ UNCHANGED txw
       ELSE /\ txw' = [txw EXCEPT ![i] =
                    [kind |-> "insert", row |-> Srv_NewRow(req[i].r, req[i].t0)]]
            /\ req' = [req EXCEPT ![i].pc = "commit", ![i].row = txw'[i].row,
                                  ![i].created = TRUE]
    /\ UNCHANGED <<players, now, last, seen, base>>

\* line 295 throws after the COMMIT: the catch answers 500
Srv_CommitStatusThrows(row) == 500

\* lines 294-300: after the COMMIT the handler logs row.id and answers 200;
\* reading row.id throws when there is no row, and the catch answers 500
Srv_CommitStatus(row) == IF row = NoRow THEN 500 ELSE 200

\* lines 294-296 and 301-304: COMMIT, the response, the client released
Srv_SyncCommit(i) ==
    /\ req[i].pc = "commit"
    /\ players' = Committed(players, txw[i])
    /\ txw' = [txw EXCEPT ![i] = NoWrite]
    /\ req' = [req EXCEPT ![i].pc = "done",
                          ![i].status = Srv_CommitStatus(req[i].row),
                          ![i].released = ClientRelease(@)]
    /\ UNCHANGED <<now, last, seen, base>>

\* lines 297-304: ROLLBACK (a failure of it is swallowed, line 298), the 500
\* response, the client released
Srv_SyncRollback(i) ==
    /\ req[i].pc = "rollback"
    /\ txw' = [txw EXCEPT ![i] = NoWrite]
    /\ req' = [req EXCEPT ![i].pc = "done", ![i].status = 500, ![i].row = NoRow,
                          ![i].created = FALSE,
                          ![i].released = ClientRelease(@)]
    /\ UNCHANGED <<players, now, last, seen, base>>

NextServer ==
    \/ \E i \in Slots, p \in SrvPathIds, e \in BOOLEAN : Srv_FetchStart(i, p, e)
    \/ \E i \in Slots : Srv_FetchSelect(i)
    \/ \E i \in Slots : Srv_FetchInsert(i)
    \/ \E i \in Slots, r \in SrvRequests : Srv_SyncStart(i, r)
    \/ \E i \in Slots : Srv_SyncBegin(i)
    \/ \E i \in Slots : Srv_SyncUpdate(i)
    \/ \E i \in Slots : Srv_SyncInsert(i)
    \/ \E i \in Slots : Srv_SyncCommit(i)
    \/ \E i \in Slots : Srv_SyncRollback(i)

SpecServer == InitTxn /\ [][NextServer]_vars

\* C2: monotonic level and exp in server.js.  A row's level and exp never go
\* down: whatever a sync submits, a stored row keeps at least the level and
\* the exp it had (max semantics).
C2_ServerLevelExpNeverDecrease ==
    [][\A t \in TgIds :
        RowByTg(players, t) # NoRow =>
            /\ RowByTg(players', t) # NoRow
            /\ RowByTg(players', t).level >= RowByTg(players, t).level
            /\ RowByTg(players', t).exp >= RowByTg(players, t).exp]_vars

\* the syncs that submit an identity and nothing else
IdentityOnly(i) ==
    req[i].op = "sync" /\ \A f \in ContentFields : req[i].r[f] = Absent

\* C9: one set of defaults.  The row an ensuring fetch creates and the row a
\* sync that submits only an identity creates hold the same callsign, level,
\* exp, resources, progress and stats.
C9_EnsureDefaultsEqualSyncDefaults ==
    \A i, j \in Slots :
        (/\ req[i].pc = "done" /\ req[i].op = "fetch" /\ req[i].created
         /\ req[j].pc = "done" /\ IdentityOnly(j) /\ req[j].created) =>
            Profile(req[i].row) = Profile(req[j].row)

\* the ensuring fetches of telegram id t
EnsuresOf(t) ==
    {i \in Slots : /\ req[i].op = "fetch" /\ req[i].ensure
                   /\ AllDigits(Trim(req[i].param.str))
                   /\ DecimalValue(Trim(req[i].param.str)) = t}

\* C10: concurrent first reads.  When two fetches with ensure=1 of one
\* telegram id have both been answered, each was answered 200 and the table
\* holds exactly one row of that id: no unique-constraint error reaches a
\* client.
C10_ConcurrentEnsuresBothSucceed ==
    \A t \in TgIds :
        (Cardinality(EnsuresOf(t)) >= 2 /\ \A i \in EnsuresOf(t) : req[i].pc = "done") =>
            /\ \A i \in EnsuresOf(t) : req[i].status = 200
            /\ Cardinality(RowsByTg(players, t)) = 1

-----------------------------------------------------------------------------
(* src/unnamed/part_005, lines 68-182: the sync is one upsert; the fetch is a *)
(* SELECT, then an UPDATE of last_login when a row was found, else an INSERT  *)
(* ... ON CONFLICT (telegram_id) DO UPDATE SET last_login.  Every statement   *)
(* runs on the pool, each a transaction of its own.                           *)

\* line 68: no ice
P5_DEFAULT_RESOURCES == [k \in {"bio", "mvc", "parts", "energy", "oxygen"} |-> 0]

\* bodies whose level and exp the INTEGER columns accept
P5Requests ==
    {r \in RaceRequests : r.level \in {Absent, Num(2)} /\ r.exp \in {Absent, Num(2)}}

\* lines 111-118 and 135: the destructuring defaults and the proposed row
P5_Excluded(tg, r, t) ==
    [telegram_id |-> tg,
     callsign |-> IF r.callsign = Absent THEN Citizen ELSE r.callsign.str,
     level |-> IF r.level = Absent THEN 1 ELSE r.level.num,
     exp |-> IF r.exp = Absent THEN 0 ELSE r.exp.num,
     resources |-> IF r.resources = Absent THEN P5_DEFAULT_RESOURCES ELSE r.resources.obj,
     progress |-> IF r.progress = Absent THEN DEFAULT_PROGRESS ELSE r.progress.obj,
     stats |-> IF r.stats = Absent THEN DEFAULT_STATS ELSE r.stats.obj,
     last_login |-> t]

\* line 174: the row the fetch proposes
P5_FetchExcluded(tg, t) ==
    [telegram_id |-> tg, callsign |-> Citizen, level |-> 1, exp |-> 0,
     resources |-> P5_DEFAULT_RESOURCES, progress |-> DEFAULT_PROGRESS,
     stats |-> DEFAULT_STATS, last_login |-> t]

\* what a statement gives back: the table, the RETURNING row, an error or none
Answer(tbl, row, err) == [tbl |-> tbl, row |-> row, err |-> err]

\* an INSERT with no ON CONFLICT clause: unique_violation on a taken id
P5_InsertOnly(tbl, ex) ==
    IF RowsByTg(tbl, ex.telegram_id) = {}
    THEN Answer(Append(tbl, ex), ex, FALSE)
    ELSE Answer(tbl, NoRow, TRUE)

\* lines 166-175
P5_InsertOrTouch(tbl, ex) ==
    Answer(UpsertTouch(tbl, ex), RowByTg(UpsertTouch(tbl, ex), ex.telegram_id), FALSE)

IdleP5 ==
    [pc |-> "idle", op |-> "none", r |-> EmptyReq, tg |-> Null, status |-> 0,
     row |-> NoRow, path |-> "none"]

\* lines 105-120: up to the await of pool.query
P5_SyncStart(i, r) ==
    /\ MayArrive(i)
    /\ LET id == pickTelegramId(r)
       IN  req' = [req EXCEPT ![i] =
                IF ~Truthy(id)
                THEN [IdleP5 EXCEPT !.pc = "done", !.op = "sync", !.r = r, !.status = 400]
                ELSE [IdleP5 EXCEPT !.pc = "query", !.op = "sync", !.r = r, !.tg = id]]
    /\ UNCHANGED <<players, now, last, seen, txw, base>>

\* lines 120-138: the upsert and the response
P5_SyncQuery(i) ==
    /\ req[i].pc = "query"
    /\ players' = Upsert(players, P5_Excluded(req[i].tg.num, req[i].r, now))
    /\ now' = now + 1
    /\ req' = [req EXCEPT ![i].pc = "done", ![i].status = 200,
                          ![i].row = RowByTg(players', req[i].tg.num),
                          ![i].path = IF RowByTg(players, req[i].tg.num) = NoRow
                                      THEN "created" ELSE "conflict"]
    /\ UNCHANGED <<last, seen, txw, base>>

\* lines 147-152: up to the await of the SELECT
P5_FetchStart(i, param) ==
    /\ MayArrive(i)
    /\ LET id == ToNumber(param)
       IN  req' = [req EXCEPT ![i] =
                IF ~Truthy(id)
                THEN [IdleP5 EXCEPT !.pc = "done", !.op = "fetch", !.status = 400]
                ELSE [IdleP5 EXCEPT !.pc = "select", !.op = "fetch", !.tg = id]]
    /\ UNCHANGED <<players, now, last, seen, txw, base>>

\* lines 152-161 and 166: the SELECT, and which statement is sent next
P5_FetchSelect(i) ==
    /\ req[i].pc = "select"
    /\ req' = [req EXCEPT ![i] =
            IF RowByTg(players, req[i].tg.num) # NoRow
            THEN [@ EXCEPT !.pc = "touch", !.row = RowByTg(players, req[i].tg.num)]
            ELSE [@ EXCEPT !.pc = "insert"]]
    /\ UNCHANGED <<players, now, last, seen, txw, base>>

\* lines 161-162: UPDATE last_login; the row of the SELECT is the response
P5_FetchTouch(i) ==
    /\ req[i].pc = "touch"
    /\ players' = [k \in DOMAIN players |->
                    IF players[k].telegram_id = req[i].tg.num
                    THEN [players[k] EXCEPT !.last_login = now]
                    ELSE players[k]]
    /\ now' = now + 1
    /\ req' = [req EXCEPT ![i].pc = "done", ![i].status = 200, ![i].path = "found"]
    /\ UNCHANGED <<last, seen, txw, base>>

\* lines 166-181: the INSERT and the response, 500 when the statement fails
P5_FetchInsert(i) ==
    /\ req[i].pc = "insert"
    /\ LET ans == P5_InsertOrTouch(players, P5_FetchExcluded(req[i].tg.num, now))
       IN  /\ players' = ans.tbl
           /\ req' = [req EXCEPT ![i].pc = "done",
                                 ![i].status = IF ans.err THEN 500 ELSE 200,
                                 ![i].row = ans.row,
                                 ![i].path = IF RowByTg(players, req[i].tg.num) = NoRow
                                             THEN "created" ELSE "conflict"]
    /\ now' = now + 1
    /\ UNCHANGED <<last, seen, txw, base>>

InitP5 ==
    /\ base = <<>>
    /\ players = <<>>
    /\ now = 0
    /\ last = [op |-> "none", status |-> 0, tg |-> Null, req |-> EmptyReq,
               before |-> NoRow, repeat |-> FALSE]
    /\ seen = [t \in TgIds |-> EmptyObj]
    /\ req = [i \in Slots |-> IdleP5]
    /\ txw = NoRequests

NextP5 ==
    \/ \E i \in Slots, r \in P5Requests : P5_SyncStart(i, r)
    \/ \E i \in Slots : P5_SyncQuery(i)
    \/ \E i \in Slots, p \in PathIds : P5_FetchStart(i, p)
    \/ \E i \in Slots : P5_FetchSelect(i)
    \/ \E i \in Slots : P5_FetchTouch(i)
    \/ \E i \in Slots : P5_FetchInsert(i)

SpecP5 == InitP5 /\ [][NextP5]_vars

\* the requests, fetches and syncs, that named telegram id t
P5RequestsOf(t) == {i \in Slots : req[i].pc # "idle" /\ req[i].tg = Num(t)}

\* C11: the auto-creating fetch of part_005 under concurrency.  Starting with
\* no row, no telegram id ever has two rows, and once the fetches and syncs
\* that named one telegram id have all been answered, each was answered 200
\* with the profile of that id and the table holds exactly one row of it
\* (syncs carry level and exp values the columns accept).
C11_ConcurrentFirstFetchesOneRow ==
    \A t \in TgIds :
        /\ Cardinality(RowsByTg(players, t)) <= 1
        /\ (P5RequestsOf(t) # {} /\ \A i \in P5RequestsOf(t) : req[i].pc = "done") =>
                /\ Cardinality(RowsByTg(players, t)) = 1
                /\ \A i \in P5RequestsOf(t) :
                        /\ req[i].status = 200
                        /\ req[i].row # NoRow
                        /\ req[i].row.telegram_id = t

\* two first fetches of one id both found no row; the later INSERT met the
\* row of the earlier one
C11_Witness ==
    \E i, j \in Slots :
        /\ i # j
        /\ req[i].op = "fetch" /\ req[j].op = "fetch"
        /\ req[i].pc = "done" /\ req[j].pc = "done"
        /\ req[i].tg = req[j].tg
        /\ req[i].path = "created" /\ req[j].path = "conflict"

-----------------------------------------------------------------------------
(* Identity of a sync *)

\* a syntactically valid numeric id: a number other than 0, or a string of
\* digits that is not zero
NumericId(v) ==
    \/ IsNum(v) /\ v.num # 0
    \/ IsStr(v) /\ AllDigits(v.str) /\ DecimalValue(v.str) # 0

\* C12: identity requirement.  A sync in which neither body.telegramId nor
\* the query parameter tg nor the user.id of the x-telegram-init-data header
\* is a usable numeric id is answered 400 at once: it never gets as far as a
\* storage statement.  Stated for the sync of server.js, whose bodies carry
\* no wallet address here.
C12_NoIdentityAnswered400 ==
    \A i \in Slots :
        (/\ req[i].op = "sync" /\ req[i].pc # "idle"
         /\ ~NumericId(Srv_TelegramId(req[i].r))
         /\ ~NumericId(req[i].r.tg)
         /\ req[i].r.init = Absent) =>
            req[i].pc = "done" /\ req[i].status = 400

\* the x-telegram-init-data header as URLSearchParams reads it: the user
\* parameter (BadJson when JSON.parse throws on it) and the hash that signs it
InitData(user, hash) == [user |-> user, hash |-> hash]

\* what the three sources of an identity may hold
PickRequests ==
    {[EmptyReq EXCEPT !.telegramId = b, !.tg = q, !.init = h] :
        b \in {Absent, Num(1), Str(<<"1">>), Str(<<"x">>), Str(<<" ">>)},
        q \in {Absent, Str(<<"2">>), Str(<<"x">>), Str(<<>>)},
        h \in {Absent, InitData(Absent, "good"), InitData(BadJson, "good"),
               InitData(Obj([id |-> Num(3)]), "good"),
               InitData(Obj([name |-> Str(<<"x">>)]), "good")}}

\* a behaviour of SpecPick holds one request and applies pickTelegramId to it
InitPick ==
    /\ base = <<>>
    /\ players = <<>>
    /\ now = 0
    /\ last \in {[op |-> "none", status |-> 0, tg |-> Null, req |-> r,
                   before |-> NoRow, repeat |-> FALSE] : r \in PickRequests}
    /\ seen = [t \in TgIds |-> EmptyObj]
    /\ req = NoRequests
    /\ txw = NoRequests

PickIdentity ==
    /\ last.op = "none"
    /\ last' = [last EXCEPT !.op = "pick", !.tg = pickTelegramId(last.req)]
    /\ UNCHANGED <<players, now, seen, req, txw, base>>

NextPick == PickIdentity

SpecPick == InitPick /\ [][NextPick]_vars

\* the id of the header: user.id when the user parameter parses
HeaderId(h) ==
    IF h = Absent \/ h.user = Absent \/ h.user = BadJson THEN Absent
    ELSE Get(h.user, "id")

\* a number, or a string of digits
ValidId(v) == IsNum(v) \/ (IsStr(v) /\ AllDigits(v.str))

\* the id of the first source, in the order body, query, header, that is valid
FirstValidId(r) ==
    CASE ValidId(r.telegramId) -> ToNumber(r.telegramId)
      [] ValidId(r.tg) -> ToNumber(r.tg)
      [] ValidId(HeaderId(r.init)) -> ToNumber(HeaderId(r.init))
      [] OTHER -> Null

\* C13: priority of the identity sources.  pickTelegramId returns the id of
\* the first of body.telegramId, query tg and header user.id that holds a
\* syntactically valid numeric id: a later source is used exactly when every
\* earlier one is absent or invalid, and null is returned only when all fail.
C13_FirstValidSourceWins ==
    last.op = "pick" => last.tg = FirstValidId(last.req)

-----------------------------------------------------------------------------
(* src/unnamed/part_003, lines 35 and 92-170: syncs that name their player in *)
(* the x-telegram-init-data header alone.                                     *)

\* line 35: process.env.TELEGRAM_BOT_TOKEN, configured
BOT_TOKEN == Str(<<"t", "o", "k">>)

\* the hash parameter of a header: the HMAC of its fields under the bot
\* token, another value, or none
InitHashes == {"hmac", "forged", "none"}

\* the hash is the one the bot token gives
SignatureVerifies(h) == Truthy(BOT_TOKEN) /\ h.hash = "hmac"

HeaderRequests ==
    {[c EXCEPT !.init = InitData(u, h)] :
        c \in {q \in Contents : q.callsign = Absent /\ q.progress = Absent},
        u \in {Obj([id |-> Num(1)]), Obj([id |-> Str(<<"2">>)]), BadJson},
        h \in InitHashes}

NextHeader == \E r \in HeaderRequests : SyncUpsert(r)

SpecHeader == Init /\ [][NextHeader]_vars

\* C14: the header is trusted only when signed.  With a bot token configured,
\* a sync whose only identity is the user.id of the init-data header writes a
\* row only if the hash of the header verifies under the token: an unsigned
\* or wrongly signed header creates and updates nothing.
C14_UnsignedHeaderWritesNothing ==
    (/\ Truthy(BOT_TOKEN)
     /\ LastSyncOk
     /\ last.req.telegramId = Absent /\ last.req.tg = Absent) =>
        SignatureVerifies(last.req.init)

-----------------------------------------------------------------------------
(* Transactions: rollback and the connection pool *)

\* C15: full rollback.  In the transactional sync of server.js a request that
\* is answered 500 leaves the players table as it was: the step that answers
\* 500 changes no row and leaves no write of the request pending, and every
\* change of the table comes with a request that is answered 200.
C15_FailedSyncLeavesTableUnchanged ==
    [][/\ \A i \in Slots :
            (req'[i].op = "sync" /\ req'[i].status = 500) =>
                /\ txw'[i] = NoWrite
                /\ (req[i].status # 500 => players' = players)
       /\ (players' # players =>
                \E i \in Slots : req[i].status = 0 /\ req'[i].status = 200)]_vars

\* a sync with parameters the columns accept was answered 500: its INSERT met
\* the row another request had committed since its UPDATE
C15_Witness ==
    \E i \in Slots :
        /\ req[i].op = "sync" /\ req[i].pc = "done" /\ req[i].status = 500
        /\ Srv_ParamsOk(req[i].r)
        /\ RowByTg(players, SqlBigint(Srv_TelegramId(req[i].r)).num) # NoRow

\* the clients that are checked out of the pool
CheckedOut == {i \in Slots : req[i].acquired > req[i].released}

\* C16: the client goes back to the pool.  In the transactional sync of
\* part_000 a request takes at most one client, never releases what it does
\* not hold, has released its client exactly once when the handler is
\* finished, whether the COMMIT succeeded, a statement failed or the ROLLBACK
\* failed, and takes none when it is answered 400; with no sync in flight no
\* client is checked out.
C16_ClientReleasedExactlyOnce ==
    /\ \A i \in Slots :
            /\ req[i].acquired <= 1
            /\ req[i].released <= req[i].acquired
            /\ (req[i].pc = "done" => req[i].released = req[i].acquired)
            /\ (req[i].status = 400 => req[i].acquired = 0)
            /\ (req[i].pc \in {"update", "insert", "commit", "rollback"} =>
                    req[i].acquired = 1 /\ req[i].released = 0)
    /\ ((\A i \in Slots : req[i].pc \in {"idle", "done"}) => CheckedOut = {})

\* a request whose ROLLBACK failed has finished, and a request that committed
C16_Witness ==
    \E i, j \in Slots :
        /\ req[i].pc = "done" /\ req[i].acquired = 1 /\ req[i].status = 0
        /\ req[j].pc = "done" /\ req[j].acquired = 1 /\ req[j].status = 200

-----------------------------------------------------------------------------
(* src/unnamed/part_003, lines 229-245 and 298-463: the sync of linked        *)
(* identities.  A row is keyed by telegram_id, by sol_address, or by both;    *)
(* each column is UNIQUE and may be NULL.  One transaction: UPDATE by         *)
(* telegram_id, else UPDATE by sol_address, else INSERT.                      *)

LkSols == {Str(<<"A">>)}

\* bodies: telegramId, solAddress, exp
LkRequests ==
    {[EmptyReq EXCEPT !.telegramId = t, !.exp = e] @@ [solAddress |-> a] :
        t \in {Absent, Num(1), Num(2)}, a \in {Absent} \cup LkSols,
        e \in {Absent, Num(2)}}

\* lines 300-301
Lk_TelegramId(r) == Nullish(r.telegramId, Null)
Lk_SolAddress(r) == Nullish(r.solAddress, Null)

\* line 287: J(x), the JSON text of x ?? {}
Lk_Json(v) == IF v = Absent \/ v = Null THEN EmptyObj ELSE v.obj

\* the columns every UPDATE of the handler sets alike, lines 331-337
Lk_SetCommon(old, r, t) ==
    [old EXCEPT
        !.callsign = Coalesce(P0_Callsign(r), old.callsign),
        !.level = Greatest(old.level, P0_Level(r)),
        !.exp = Greatest(old.exp, P0_Exp(r)),
        !.resources = Lk_Json(r.resources),
        !.progress = Lk_Json(r.progress),
        !.stats = JsonbConcat(old.stats, Lk_Json(r.stats)),
        !.last_login = t]

\* lines 329-340: UPDATE ... WHERE telegram_id = $1
Lk_SetByTg(old, r, t) ==
    [Lk_SetCommon(old, r, t) EXCEPT
        !.sol_address = Coalesce(Lk_SolAddress(r), old.sol_address)]

\* the UPDATE by sol_address without telegram_id = COALESCE(telegram_id, $2)
Lk_SetBySolUnlinked(old, r, t) == Lk_SetCommon(old, r, t)

\* lines 347-358: UPDATE ... WHERE sol_address = $1, the telegram id filled in
Lk_SetBySol(old, r, t) ==
    [Lk_SetCommon(old, r, t) EXCEPT
        !.telegram_id = Coalesce(old.telegram_id, SqlBigint(Lk_TelegramId(r)))]

\* lines 367-371 and 417-421: INSERT ... VALUES
Lk_NewRow(r, t) ==
    [telegram_id |-> IF Truthy(Lk_TelegramId(r)) THEN SqlBigint(Lk_TelegramId(r)) ELSE Null,
     sol_address |-> Lk_SolAddress(r),
     callsign |-> P0_Callsign(r),
     level |-> P0_Level(r),
     exp |-> P0_Exp(r),
     resources |-> Lk_Json(r.resources),
     progress |-> Lk_Json(r.progress),
     stats |-> Lk_Json(r.stats),
     last_login |-> t]

KeyColumns == <<"telegram_id", "sol_address">>

\* the rows of tbl whose column col holds val
RowsByKey(tbl, col, val) == {k \in DOMAIN tbl : tbl[k][col] = val}

\* writing row nr in place of the row at idx (0: a new row) puts a value into
\* the unique column col
KeyWritten(nr, idx, col) ==
    /\ nr[col] # Null
    /\ IF idx = 0 THEN TRUE ELSE players[idx][col] # nr[col]

\* another open transaction has written the value val into column col
KeyPending(i, col, val) ==
    \E j \in Slots \ {i} :
        /\ txw[j].kind # "none"
        /\ txw[j].row[col] = val
        /\ IF txw[j].kind = "insert" THEN TRUE ELSE players[txw[j].idx][col] # val

\* a column without a unique index: any value may be written
KeyCheckNone(i, nr, idx, col) == "ok"

\* the check of one unique index: a committed row with the value is a
\* unique_violation, an uncommitted one makes the statement wait
KeyCheck(i, nr, idx, col) ==
    CASE ~KeyWritten(nr, idx, col) -> "ok"
      [] RowsByKey(players, col, nr[col]) \ {idx} # {} -> "error"
      [] KeyPending(i, col, nr[col]) -> "wait"
      [] OTHER -> "ok"

\* the unique indexes are checked in the order of their creation
WriteCheck(i, nr, idx) ==
    IF KeyCheck(i, nr, idx, KeyColumns[1]) # "ok"
    THEN KeyCheck(i, nr, idx, KeyColumns[1])
    ELSE KeyCheck(i, nr, idx, KeyColumns[2])

\* lines 299-312: up to the await of pool.connect()
Lk_Start(i, r) ==
    /\ MayArrive(i)
    /\ req' = [req EXCEPT ![i] =
            IF ~Truthy(Lk_TelegramId(r)) /\ ~Truthy(Lk_SolAddress(r))
            THEN [IdleTxn EXCEPT !.pc = "done", !.op = "sync", !.r = r, !.status = 400]
            ELSE [IdleTxn EXCEPT !.pc = "connect", !.op = "sync", !.r = r]]
    /\ UNCHANGED <<players, now, last, seen, txw, base>>

\* lines 312-314 and 327, 388: the client, BEGIN, and the branch taken
Lk_Begin(i) ==
    /\ req[i].pc = "connect"
    /\ req' = [req EXCEPT ![i].pc = IF Truthy(Lk_TelegramId(req[i].r))
                                    THEN "updateTg" ELSE "updateSolOnly",
                          ![i].t0 = now,
                          ![i].acquired = @ + 1]
    /\ now' = now + 1
    /\ UNCHANGED <<players, last, seen, txw, base>>

\* the SET clause of the UPDATE the handler sends at pc
Lk_Set(pc, old, r, t) ==
    CASE pc = "updateTg" -> Lk_SetByTg(old, r, t)
      [] pc = "updateSol" -> Lk_SetBySol(old, r, t)
      [] OTHER -> Lk_SetCommon(old, r, t)

\* the UPDATE of the rows hit, and where to go when no row was hit; a
\* unique_violation sends the handler to its catch
Lk_Update(i, hit, miss) ==
    LET set(old) == Lk_Set(req[i].pc, old, req[i].r, req[i].t0) IN
    /\ IF hit = {}
       THEN /\ req' = [req EXCEPT ![i].pc = miss]
            /\ UNCHANGED txw
       ELSE \E idx \in hit :
                /\ ~LockedByOther(i, idx)
                /\ WriteCheck(i, set(players[idx]), idx) # "wait"
                /\ IF WriteCheck(i, set(players[idx]), idx) = "error"
                   THEN /\ req' = [req EXCEPT ![i].pc = "rollback"]
                        /\ UNCHANGED txw
                   ELSE /\ txw' = [txw EXCEPT ![i] =
                                [kind |-> "update", idx |-> idx,
                                 row |-> set(players[idx])]]
                        /\ req' = [req EXCEPT ![i].pc = "commit",
                                              ![i].row = set(players[idx])]
    /\ UNCHANGED <<players, now, last, seen, base>>

\* lines 328-345: UPDATE by telegram_id
Lk_UpdateTg(i) ==
    /\ req[i].pc = "updateTg"
    /\ Lk_Update(i, RowsByKey(players, "telegram_id", SqlBigint(Lk_TelegramId(req[i].r))),
                 IF Truthy(Lk_SolAddress(req[i].r)) THEN "updateSol" ELSE "insert")

\* lines 345-361: no row by telegram_id, UPDATE by sol_address
Lk_UpdateSol(i) ==
    /\ req[i].pc = "updateSol"
    /\ Lk_Update(i, RowsByKey(players, "sol_address", Lk_SolAddress(req[i].r)), "insert")

\* lines 389-403: no telegramId, UPDATE by sol_address
Lk_UpdateSolOnly(i) ==
    /\ req[i].pc = "updateSolOnly"
    /\ Lk_Update(i, RowsByKey(players, "sol_address", Lk_SolAddress(req[i].r)), "insert")

\* lines 363-373 and 405-423: INSERT; on unique_violation the catch of the
\* telegramId branch goes on to selectBySol when there is a solAddress, the
\* other catches rethrow
Lk_Insert(i) ==
    /\ req[i].pc = "insert"
    /\ LET nr == Lk_NewRow(req[i].r, req[i].t0)
       IN  /\ WriteCheck(i, nr, 0) # "wait"
           /\ IF WriteCheck(i, nr, 0) = "error"
              THEN /\ req' = [req EXCEPT ![i].pc =
                            IF Truthy(Lk_TelegramId(req[i].r)) /\ Truthy(Lk_SolAddress(req[i].r))
                            THEN "fallback" ELSE "rollback"]
                   /\ UNCHANGED txw
              ELSE /\ txw' = [txw EXCEPT ![i] = [kind |-> "insert", row |-> nr]]
                   /\ req' = [req EXCEPT ![i].pc = "commit", ![i].row = nr,
                                         ![i].created = TRUE]
    /\ UNCHANGED <<players, now, last, seen, base>>

\* lines 374-378: selectBySol in the transaction the failed INSERT aborted:
\* the statement is refused (in_failed_sql_transaction) and the error leaves
\* the handler's try block
Lk_Fallback(i) ==
    /\ req[i].pc = "fallback"
    /\ req' = [req EXCEPT ![i].pc = "rollback"]
    /\ UNCHANGED <<players, now, last, seen, txw, base>>

\* lines 454-455 and 460-462: COMMIT, the response, the client released
Lk_Commit(i) ==
    /\ req[i].pc = "commit"
    /\ players' = Committed(players, txw[i])
    /\ txw' = [txw EXCEPT ![i] = NoWrite]
    /\ req' = [req EXCEPT ![i].pc = "done", ![i].status = 200,
                          ![i].released = ClientRelease(@)]
    /\ UNCHANGED <<now, last, seen, base>>

\* lines 456-462: ROLLBACK, the 500 response, the client released
Lk_Rollback(i) ==
    /\ req[i].pc = "rollback"
    /\ txw' = [txw EXCEPT ![i] = NoWrite]
    /\ req' = [req EXCEPT ![i].pc = "done", ![i].status = 500, ![i].row = NoRow,
                          ![i].created = FALSE,
                          ![i].released = ClientRelease(@)]
    /\ UNCHANGED <<players, now, last, seen, base>>

\* lines 457 and 460-462: the ROLLBACK fails; no response, the client released
Lk_RollbackFails(i) ==
    /\ req[i].pc = "rollback"
    /\ txw' = [txw EXCEPT ![i] = NoWrite]
    /\ req' = [req EXCEPT ![i].pc = "done", ![i].status = 0, ![i].row = NoRow,
                          ![i].created = FALSE,
                          ![i].released = ClientRelease(@)]
    /\ UNCHANGED <<players, now, last, seen, base>>

\* the tables the requests find: empty, or the rows earlier syncs inserted for
\* telegram id 1, for the address, for each of them, or for both together
LkTables ==
    LET tg1 == [EmptyReq EXCEPT !.telegramId = Num(1)] @@ [solAddress |-> Absent]
        sol == EmptyReq @@ [solAddress |-> Str(<<"A">>)]
        both == [EmptyReq EXCEPT !.telegramId = Num(1)] @@ [solAddress |-> Str(<<"A">>)]
    IN  {<<>>,
         <<Lk_NewRow(tg1, 0)>>,
         <<Lk_NewRow(sol, 0)>>,
         <<Lk_NewRow(tg1, 0), Lk_NewRow(sol, 1)>>,
         <<Lk_NewRow(both, 0)>>}

InitLk ==
    /\ base \in LkTables
    /\ players = base
    /\ now = Len(base)
    /\ last = [op |-> "none", status |-> 0, tg |-> Null, req |-> EmptyReq,
               before |-> NoRow, repeat |-> FALSE]
    /\ seen = [t \in TgIds |-> EmptyObj]
    /\ req = [i \in Slots |-> IdleTxn]
    /\ txw = [i \in Slots |-> NoWrite]

NextLk ==
    \/ \E i \in Slots, r \in LkRequests : Lk_Start(i, r)
    \/ \E i \in Slots : Lk_Begin(i)
    \/ \E i \in Slots : Lk_UpdateTg(i)
    \/ \E i \in Slots : Lk_UpdateSol(i)
    \/ \E i \in Slots : Lk_UpdateSolOnly(i)
    \/ \E i \in Slots : Lk_Insert(i)
    \/ \E i \in Slots : Lk_Fallback(i)
    \/ \E i \in Slots : Lk_Commit(i)
    \/ \E i \in Slots : Lk_Rollback(i)
    \/ \E i \in Slots : Lk_RollbackFails(i)

SpecLk == InitLk /\ [][NextLk]_vars

\* C17: one row per identity.  In every state the linked-identity sync
\* reaches, no two rows hold the same non-null telegram_id, no two rows hold
\* the same non-null sol_address, and every row holds at least one of the two.
C17_OneRowPerIdentity ==
    /\ \A k, l \in DOMAIN players :
            k # l =>
                /\ (players[k].telegram_id # Null =>
                        players[k].telegram_id # players[l].telegram_id)
                /\ (players[k].sol_address # Null =>
                        players[k].sol_address # players[l].sol_address)
    /\ \A k \in DOMAIN players :
            players[k].telegram_id # Null \/ players[k].sol_address # Null

\* two rows, one of them linked to both identities by an UPDATE, and a sync
\* that a unique index refused
C17_Witness ==
    /\ Len(players) = 2
    /\ \E k \in DOMAIN players :
            players[k].telegram_id # Null /\ players[k].sol_address # Null
    /\ \E i \in Slots :
            req[i].pc = "done" /\ req[i].status = 200 /\ ~req[i].created
    /\ \E i \in Slots : req[i].pc = "done" /\ req[i].status = 500

-----------------------------------------------------------------------------
(* The field policy of the normalizing upsert, src/unnamed/part_003 lines     *)
(* 73-90 and 131-160, on Spec.                                                *)

\* the callsign of a request is left out, empty or white space only
NoCallsign(r) == ~IsStr(r.callsign) \/ Trim(r.callsign.str) = <<>>

\* C18: callsign.  A sync answered 200 for a telegram id that had a row, and
\* that leaves callsign out or sends an empty or white-space-only one, leaves
\* the stored callsign as it was; a sync that sends a non-empty callsign
\* stores it, trimmed.
C18_CallsignKeptWhenOmitted ==
    (LastSyncOk /\ last.before # NoRow) =>
        IF NoCallsign(last.req)
        THEN LastRow.callsign = last.before.callsign
        ELSE LastRow.callsign = Trim(last.req.callsign.str)

\* C19: progress.  A sync answered 200 for a telegram id that had a row
\* leaves the stored progress as it was when it submits no progress, and
\* stores the submitted mapping in place of it when it submits one.
C19_ProgressKeptWhenOmitted ==
    (LastSyncOk /\ last.before # NoRow) =>
        /\ (last.req.progress = Absent => LastRow.progress = last.before.progress)
        /\ (IsObj(last.req.progress) => LastRow.progress = last.req.progress.obj)

\* C20: resources are never negative.  Every value of every stored resources
\* mapping is a number that is 0 or more.
C20_StoredResourcesNotNegative ==
    \A k \in DOMAIN players :
        \A n \in DOMAIN players[k].resources : players[k].resources[n] >= 0

\* C21: range of level and exp.  In every state reachable through syncs and
\* fetches of the normalizing upsert, every stored row has level 1 or more
\* and exp 0 or more, whatever numbers the clients submitted.
C21_StoredLevelExpInRange ==
    \A k \in DOMAIN players : players[k].level >= 1 /\ players[k].exp >= 0

-----------------------------------------------------------------------------
(* The two auto-creating fetches next to syncs (SpecFetch): every request is  *)
(* served by the handlers of src/unnamed/part_003 (lines 124-195) or by those *)
(* of src/unnamed/part_005 (lines 104-182), on one players table.             *)

\* the syncs next to the fetches: a callsign, a level or a resources snapshot
FetchRaceRequests ==
    {r \in Requests :
        /\ Truthy(pickTelegramId(r))
        /\ \/ r.callsign = Str(<<" ", "T", " ">>)
           \/ r.level = Num(2)
           \/ r.resources = Obj([oxygen |-> Num(10), energy |-> Num(20)])}

\* the tables the requests start from: empty, or the row of an earlier sync
FetchRaceTables ==
    {<<>>} \cup {Upsert(<<>>, Excluded(1, r, 0)) : r \in FetchRaceRequests}

\* the handlers that took a request: those of part_003, those of part_005
ByPart003(i) == "with" \in DOMAIN req[i]
ByPart005(i) == "path" \in DOMAIN req[i]

InitFetch ==
    /\ base \in FetchRaceTables
    /\ players = base
    /\ now = Len(base)
    /\ last = [op |-> "none", status |-> 0, tg |-> Null, req |-> EmptyReq,
               before |-> NoRow, repeat |-> FALSE]
    /\ seen = [t \in TgIds |-> EmptyObj]
    /\ req = [i \in Slots |-> IdleRequest]
    /\ txw = NoRequests

NextFetch ==
    \/ \E i \in Slots, r \in FetchRaceRequests : RaceSyncStart(i, r)
    \/ \E i \in Slots : ByPart003(i) /\ RaceSyncQuery(i)
    \/ \E i \in Slots, p \in PathIds : RaceFetchStart(i, p)
    \/ \E i \in Slots : ByPart003(i) /\ RaceFetchQuery(i)
    \/ \E i \in Slots, r \in FetchRaceRequests : P5_SyncStart(i, r)
    \/ \E i \in Slots : ByPart005(i) /\ P5_SyncQuery(i)
    \/ \E i \in Slots, p \in PathIds : P5_FetchStart(i, p)
    \/ \E i \in Slots : ByPart005(i) /\ P5_FetchSelect(i)
    \/ \E i \in Slots : ByPart005(i) /\ P5_FetchTouch(i)
    \/ \E i \in Slots : ByPart005(i) /\ P5_FetchInsert(i)

SpecFetch == InitFetch /\ [][NextFetch]_vars

\* C23: the fetch only touches last_login.  No step of a by-tg fetch, in the
\* single-upsert handler or in the select-then-update handler, changes the
\* telegram id, callsign, level, exp, resources, progress or stats of a row
\* that exists when the step is taken, also with syncs of the same id between
\* its steps.
C23_FetchChangesOnlyLastLogin ==
    [][(\E i \in Slots : req[i].op = "fetch" /\ req'[i] # req[i]) =>
            \A k \in DOMAIN players :
                /\ k \in DOMAIN players'
                /\ players'[k].telegram_id = players[k].telegram_id
                /\ Profile(players'[k]) = Profile(players[k])]_vars

\* a select-then-update fetch found the row, a sync of the same id changed
\* the row before the fetch's UPDATE, and the row still holds what the sync
\* stored
C23_Witness ==
    \E i, j \in Slots :
        /\ ByPart005(i) /\ req[i].op = "fetch" /\ req[i].pc = "done"
        /\ req[i].path = "found"
        /\ req[j].op = "sync" /\ req[j].pc = "done" /\ req[j].tg = req[i].tg
        /\ Profile(req[i].row) # Profile(req[j].row)
        /\ Profile(RowByTg(players, req[i].tg.num)) = Profile(req[j].row)

-----------------------------------------------------------------------------
(* src/unnamed/part_001: the JSON-file store (SpecFile).                      *)
(*                                                                            *)
(* players is the data file here: whether it exists, and the players object   *)
(* of the JSON text in it, keyed by telegram id.  base is EMPTY_DB.players,   *)
(* the one object every { ...EMPTY_DB } shares.  txw is the chain of saves    *)
(* behind __saving, oldest first.  A handler runs up to its next await; a     *)
(* read of the file and the rename that replaces it are atomic.               *)

\* lines 35-44
ResourceDefaults ==
    [k \in {"oxygen", "energy", "mvc", "ice", "bio", "parts", "polymers", "rare"} |->
        Num(0)]

\* lines 88-91: one value of a known resource
P1_ResourceValue(v) ==
    LET n == IF IsNum(v) THEN v ELSE IF Truthy(v) THEN ToNumber(v) ELSE Num(0)
    IN  IF IsNum(n) /\ n.num >= 0 THEN n ELSE Num(0)

\* normalizeResources, lines 85-94: the defaults under the given entries,
\* every known name made a number that is 0 or more
P1_normalizeResources(r) ==
    LET out == (IF Truthy(r) /\ IsObj(r) THEN r.obj ELSE EmptyObj) @@ ResourceDefaults
    IN  Obj([k \in DOMAIN out |->
                IF k \in DOMAIN ResourceDefaults THEN P1_ResourceValue(out[k])
                ELSE out[k]])

\* prev?.f
PrevGet(prev, f) == IF prev = NoRow THEN Absent ELSE prev[f]

\* line 105: { ...prevRes, ...incRes }
MergeResources(prevRes, incRes) == Obj(incRes.obj @@ prevRes.obj)

\* lines 96-112
mergePlayer(prev, incoming, tg, t) ==
    [telegram_id |-> tg,
     callsign |-> Nullish(incoming.callsign, Nullish(PrevGet(prev, "callsign"), Str(Citizen))),
     level |-> IF IsNum(incoming.level) THEN incoming.level
               ELSE Nullish(PrevGet(prev, "level"), Num(1)),
     exp |-> IF IsNum(incoming.exp) THEN incoming.exp
             ELSE Nullish(PrevGet(prev, "exp"), Num(0)),
     resources |-> MergeResources(P1_normalizeResources(PrevGet(prev, "resources")),
                                  P1_normalizeResources(incoming.resources)),
     progress |-> Nullish(incoming.progress, Nullish(PrevGet(prev, "progress"), Obj(EmptyObj))),
     stats |-> Nullish(incoming.stats, Nullish(PrevGet(prev, "stats"), Obj(EmptyObj))),
     created_at |-> IF prev = NoRow THEN t ELSE prev.created_at,
     last_login |-> t,
     updated_at |-> t]

\* lines 115-116
toN(v) == IF v = Absent \/ v = Null \/ v = Str(<<>>) THEN Absent ELSE ToNumber(v)

\* lines 114-123; param is req.params.tg
readTelegramId(param, r) ==
    Nullish(toN(param), Nullish(toN(r.tg), Nullish(toN(r.telegramId), toN(r.telegram_id))))

\* a request of the file store with nothing in it
EmptyFileReq == [telegram_id |-> Absent] @@ EmptyReq

\* the syncs: the player named in the query, in the body or nowhere, and no
\* field, a level or a resources snapshot
FileRequests ==
    {[EmptyFileReq EXCEPT !.tg = id[1], !.telegramId = id[2], !.telegram_id = id[3],
                          !.level = c[1], !.resources = c[2]] :
        id \in {<<Str(<<"1">>), Absent, Absent>>, <<Str(<<"2">>), Num(1), Absent>>,
                <<Absent, Num(1), Num(2)>>, <<Absent, Absent, Num(2)>>,
                <<Absent, Absent, Absent>>, <<Str(<<"x">>), Num(1), Absent>>},
        c \in {<<Absent, Absent>>, <<Num(2), Absent>>,
               <<Absent, Obj([energy |-> Num(5), junk |-> Num(7)])>>,
               <<Absent, Obj([oxygen |-> Num(-5), bio |-> Str(<<"x">>)])>>}}

\* the data file before the requests: not there, no player in it, or the
\* profile an earlier sync of player 1 left
FileContents ==
    {[exists |-> FALSE, players |-> EmptyObj],
     [exists |-> TRUE, players |-> EmptyObj],
     [exists |-> TRUE,
      players |-> 1 :> mergePlayer(NoRow,
                        [EmptyFileReq EXCEPT !.resources =
                            Obj([oxygen |-> Num(10), junk |-> Num(7)])],
                        Num(1), 0)]}

IdleFile ==
    [pc |-> "idle", op |-> "none", r |-> EmptyFileReq, tg |-> Null, status |-> 0,
     db |-> EmptyObj, shared |-> FALSE, prev |-> NoRow, player |-> Null,
     saved |-> FALSE]

\* the players object the request holds: its own copy, or EMPTY_DB.players
DbPlayers(i) == IF req[i].shared THEN base ELSE req[i].db

\* lines 147-150: up to the await of loadDB
P1_SyncStart(i, r) ==
    /\ MayArrive(i)
    /\ LET tg == readTelegramId(Absent, r)
       IN  req' = [req EXCEPT ![i] =
                IF ~IsNum(tg)
                THEN [IdleFile EXCEPT !.pc = "done", !.op = "sync", !.r = r, !.status = 400]
                ELSE [IdleFile EXCEPT !.pc = "load", !.op = "sync", !.r = r, !.tg = tg]]
    /\ UNCHANGED <<players, now, last, seen, txw, base>>

\* lines 130-133
P1_FetchStart(i, param) ==
    /\ MayArrive(i)
    /\ LET tg == readTelegramId(param, EmptyFileReq)
       IN  req' = [req EXCEPT ![i] =
                IF ~IsNum(tg)
                THEN [IdleFile EXCEPT !.pc = "done", !.op = "fetch", !.status = 400]
                ELSE [IdleFile EXCEPT !.pc = "load", !.op = "fetch", !.tg = tg]]
    /\ UNCHANGED <<players, now, last, seen, txw, base>>

\* lines 55-57: no file; JSON.stringify(EMPTY_DB) is taken and the write begun
P1_LoadMissing(i) ==
    /\ req[i].pc = "load"
    /\ ~players.exists
    /\ req' = [req EXCEPT ![i].pc = "create", ![i].db = base]
    /\ UNCHANGED <<players, now, last, seen, txw, base>>

\* lines 57-58: the write of the empty file ends; { ...EMPTY_DB } is returned
P1_LoadCreate(i) ==
    /\ req[i].pc = "create"
    /\ players' = [exists |-> TRUE, players |-> req[i].db]
    /\ req' = [req EXCEPT ![i].pc = "loaded", ![i].shared = TRUE, ![i].db = EmptyObj]
    /\ UNCHANGED <<now, last, seen, txw, base>>

\* lines 60-63: the file is read and parsed
P1_LoadRead(i) ==
    /\ req[i].pc = "load"
    /\ players.exists
    /\ req' = [req EXCEPT ![i].pc = "loaded", ![i].db = players.players]
    /\ UNCHANGED <<players, now, last, seen, txw, base>>

\* lines 64-67: mkdir, writeFile, readFile or JSON.parse threw
P1_LoadFails(i) ==
    /\ req[i].pc \in {"load", "create"}
    /\ req' = [req EXCEPT ![i].pc = "loaded", ![i].shared = TRUE, ![i].db = EmptyObj]
    /\ UNCHANGED <<players, now, last, seen, txw, base>>

\* lines 134-140: the response of the fetch
P1_FetchRespond(i) ==
    /\ req[i].pc = "loaded"
    /\ req[i].op = "fetch"
    /\ LET key == req[i].tg.num
           p == IF key \in DOMAIN DbPlayers(i) THEN DbPlayers(i)[key] ELSE NoRow
       IN  req' = [req EXCEPT ![i].pc = "done", ![i].status = 200, ![i].prev = p,
                        ![i].player =
                            IF p = NoRow THEN Null
                            ELSE [p EXCEPT !.resources = P1_normalizeResources(@)]]
    /\ UNCHANGED <<players, now, last, seen, txw, base>>

\* lines 151-166: merge into the loaded object and queue the save
P1_Merge(i) ==
    /\ req[i].pc = "loaded"
    /\ req[i].op = "sync"
    /\ LET key == req[i].tg.num
           prev == IF key \in DOMAIN DbPlayers(i) THEN DbPlayers(i)[key] ELSE NoRow
           merged == mergePlayer(prev, req[i].r, req[i].tg, now)
       IN  /\ req' = [req EXCEPT ![i].pc = "save", ![i].prev = prev,
                                 ![i].player = merged,
                                 ![i].db = IF req[i].shared THEN @
                                           ELSE (key :> merged) @@ @]
           /\ base' = IF req[i].shared THEN (key :> merged) @@ base ELSE base
    /\ txw' = Append(txw, i)
    /\ now' = now + 1
    /\ UNCHANGED <<players, last, seen>>

\* lines 73-77 and 166-170: the save at the head of the chain writes the
\* temporary file and renames it; the sync is answered 200
P1_Save(i) ==
    /\ req[i].pc = "save"
    /\ txw # <<>> /\ Head(txw) = i
    /\ players' = [exists |-> TRUE, players |-> DbPlayers(i)]
    /\ txw' = Tail(txw)
    /\ req' = [req EXCEPT ![i].pc = "done", ![i].status = 200, ![i].saved = TRUE]
    /\ UNCHANGED <<now, last, seen, base>>

\* lines 78-80 and 166-170: writeFile or rename threw; the error is logged,
\* the chain goes on, the sync is answered 200
P1_SaveFails(i) ==
    /\ req[i].pc = "save"
    /\ txw # <<>> /\ Head(txw) = i
    /\ txw' = Tail(txw)
    /\ req' = [req EXCEPT ![i].pc = "done", ![i].status = 200, ![i].saved = FALSE]
    /\ UNCHANGED <<players, now, last, seen, base>>

InitFile ==
    /\ players \in FileContents
    /\ base = EmptyObj
    /\ txw = <<>>
    /\ now = 1
    /\ last = [op |-> "none", status |-> 0, tg |-> Null, req |-> EmptyReq,
               before |-> NoRow, repeat |-> FALSE]
    /\ seen = [t \in TgIds |-> EmptyObj]
    /\ req = [i \in Slots |-> IdleFile]

NextFile ==
    \/ \E i \in Slots, r \in FileRequests : P1_SyncStart(i, r)
    \/ \E i \in Slots, p \in PathIds : P1_FetchStart(i, p)
    \/ \E i \in Slots : P1_LoadMissing(i)
    \/ \E i \in Slots : P1_LoadCreate(i)
    \/ \E i \in Slots : P1_LoadRead(i)
    \/ \E i \in Slots : P1_LoadFails(i)
    \/ \E i \in Slots : P1_FetchRespond(i)
    \/ \E i \in Slots : P1_Merge(i)
    \/ \E i \in Slots : P1_Save(i)
    \/ \E i \in Slots : P1_SaveFails(i)

SpecFile == InitFile /\ [][NextFile]_vars

\* the syncs answered 200
FileSyncsOk == {i \in Slots : req[i].op = "sync" /\ req[i].pc = "done" /\ req[i].status = 200}

\* C22: a failed write is not answered 200.  Every sync of the file store
\* answered 200 has had its write of the data file succeed.
C22_SyncOkMeansSaved ==
    \A i \in FileSyncsOk : req[i].saved

\* C24: resources are merged.  In the profile a sync of the file store
\* computes for a player that had one, every known resource the request does
\* not name keeps the value it had in the stored profile.
C24_OmittedResourceKept ==
    \A i \in Slots :
        (req[i].op = "sync" /\ req[i].pc \in {"save", "done"} /\ req[i].prev # NoRow) =>
            \A k \in DOMAIN ResourceDefaults :
                Get(req[i].r.resources, k) = Absent =>
                    req[i].player.resources.obj[k] =
                        P1_normalizeResources(req[i].prev.resources).obj[k]

\* C30: no lost write.  Once two syncs of the file store for two different
\* telegram ids have both been answered 200 after their writes succeeded, the
\* data file holds the merged profile of each.
C30_BothProfilesInFile ==
    \A i, j \in FileSyncsOk :
        (req[i].tg # req[j].tg /\ req[i].saved /\ req[j].saved) =>
            /\ req[i].tg.num \in DOMAIN players.players
            /\ players.players[req[i].tg.num] = req[i].player

-----------------------------------------------------------------------------
(* The linked-identity sync of src/unnamed/part_003 (lines 298-463), on       *)
(* SpecLk: which row a request reaches.                                       *)

\* the telegram id and the address of the request in slot i, as the columns hold them
LkTg(i) == SqlBigint(Lk_TelegramId(req[i].r))
LkSol(i) == Lk_SolAddress(req[i].r)

\* request i has just had an UPDATE of the row at k accepted
LkUpdated(i, k) ==
    /\ req'[i].pc = "commit"
    /\ txw'[i].kind = "update"
    /\ txw'[i].idx = k

\* C25: linking.  When a request carrying telegramId T and solAddress S sends
\* its UPDATE by sol_address while no row holds T and the row holding S has
\* no telegram id, that row is updated with telegram_id T and nothing is
\* inserted; and when a row holds both T and S, the UPDATE of a request
\* carrying T alone and of a request carrying S alone is an update of that row.
C25_LinkBySolThenEitherKey ==
    [][\A i \in Slots : \A k \in DOMAIN players :
        /\ ( /\ req[i].pc = "updateSol" /\ req'[i].pc # "updateSol"
             /\ RowsByKey(players, "telegram_id", LkTg(i)) = {}
             /\ players[k].sol_address = LkSol(i)
             /\ players[k].telegram_id = Null )
           => /\ LkUpdated(i, k)
              /\ txw'[i].row.telegram_id = LkTg(i)
              /\ txw'[i].row.sol_address = LkSol(i)
        /\ ( /\ req[i].pc = "updateTg" /\ req'[i].pc # "updateTg"
             /\ LkSol(i) = Null
             /\ players[k].telegram_id = LkTg(i)
             /\ players[k].sol_address # Null )
           => LkUpdated(i, k) /\ txw'[i].row.sol_address = players[k].sol_address
        /\ ( /\ req[i].pc = "updateSolOnly" /\ req'[i].pc # "updateSolOnly"
             /\ players[k].sol_address = LkSol(i)
             /\ players[k].telegram_id # Null )
           => LkUpdated(i, k) /\ txw'[i].row.telegram_id = players[k].telegram_id
      ]_vars

\* the table held one row, for the address and with no telegram id; a sync
\* with telegram id and address was answered 200 with that row linked, and a
\* sync with the telegram id alone was answered 200 with the same row
C25_Witness ==
    /\ Len(base) = 1 /\ base[1].telegram_id = Null
    /\ Len(players) = 1
    /\ \E i, j \in Slots :
        /\ req[i].pc = "done" /\ req[i].status = 200 /\ ~req[i].created
        /\ Truthy(LkTg(i)) /\ Truthy(LkSol(i))
        /\ req[i].row.telegram_id = LkTg(i) /\ req[i].row.sol_address = LkSol(i)
        /\ req[j].pc = "done" /\ req[j].status = 200 /\ ~req[j].created
        /\ LkTg(j) = LkTg(i) /\ LkSol(j) = Null
        /\ req[j].row.sol_address = LkSol(i)

\* C26: the 23505 fallback.  A request carrying telegramId and solAddress
\* whose INSERT failed with a unique violation goes on, in the same
\* transaction, to an accepted UPDATE of the row its solAddress selects, which
\* it then commits (and is answered 200 with that row).
C26_FallbackMergesIntoExistingRow ==
    [][\A i \in Slots :
        (req[i].pc = "fallback" /\ req'[i].pc # "fallback") =>
            /\ req'[i].pc = "commit"
            /\ txw'[i].kind = "update"
            /\ players[txw'[i].idx].sol_address = LkSol(i)
      ]_vars

\* C28: rows of another telegram id.  The commit of a request carrying
\* telegramId T leaves callsign, level, exp, resources, progress and stats of
\* every row whose telegram_id is neither NULL nor T as they were.
C28_OtherTelegramIdUntouched ==
    [][\A i \in Slots :
        (req[i].pc = "commit" /\ req'[i].pc = "done" /\ Truthy(Lk_TelegramId(req[i].r))) =>
            \A k \in DOMAIN players :
                (players[k].telegram_id # Null /\ players[k].telegram_id # LkTg(i)) =>
                    Profile(players'[k]) = Profile(players[k])
      ]_vars

-----------------------------------------------------------------------------
(* src/unnamed/part_002, lines 78-138: one upsert per sync, ON CONFLICT       *)
(* (telegram_id) when the body has a telegramId, ON CONFLICT (sol_address)    *)
(* otherwise; one request after the other (SpecP2).                           *)

\* the name of a function in a statement, letter by letter; a letter outside
\* ASCII is written as its code point
GREATEST == <<"G", "R", "E", "A", "T", "E", "S", "T">>

\* lines 105-106: the function of the telegram_id statement
P2_TgGreatest == <<"G", "R", "E", "A", "T", "E", "S", "T">>

\* lines 122-123: the function of the sol_address statement, whose last two
\* letters are CYRILLIC CAPITAL LETTER ES and CYRILLIC CAPITAL LETTER TE
P2_SolGreatest == <<"G", "R", "E", "A", "T", "E", "U+0421", "U+0422">>

\* the statement names a function the server knows; if not, it is refused
\* with undefined_function (42883) before any row is looked at
SqlKnowsFunction(name) == name = GREATEST

P2_Sols == {Str(<<"A">>), Str(<<"B">>)}

\* bodies: telegramId, solAddress, level, exp
P2Requests ==
    {[EmptyReq EXCEPT !.telegramId = t, !.level = l, !.exp = e] @@ [solAddress |-> a] :
        t \in {Absent, Num(1)}, a \in {Absent} \cup P2_Sols,
        l \in {Absent, Num(2), Num(3)}, e \in {Absent, Num(2)}}

\* lines 80-89 and 112, 129: the values bound to the statement
P2_Excluded(r) ==
    [telegram_id |-> IF Truthy(r.telegramId) THEN SqlBigint(r.telegramId) ELSE Null,
     sol_address |-> Nullish(r.solAddress, Null),
     callsign |-> Nullish(r.callsign, Null),
     level |-> IF r.level = Absent THEN 1 ELSE r.level.num,
     exp |-> IF r.exp = Absent THEN 0 ELSE r.exp.num,
     resources |-> Lk_Json(r.resources),
     progress |-> Lk_Json(r.progress),
     stats |-> Lk_Json(r.stats)]

\* lines 102-109 and 120-126: DO UPDATE SET, sol_address set in the
\* telegram_id statement only
P2_OnConflict(old, ex, key) ==
    [old EXCEPT
        !.sol_address = IF key = "telegram_id" THEN Coalesce(ex.sol_address, @) ELSE @,
        !.callsign = Coalesce(ex.callsign, @),
        !.level = Greatest(@, ex.level),
        !.exp = Greatest(@, ex.exp),
        !.resources = ex.resources,
        !.progress = ex.progress,
        !.stats = JsonbConcat(@, ex.stats)]

\* the row a statement writes: the proposed one, or the one in conflict updated
P2_Written(tbl, ex, key) ==
    IF RowsByKey(tbl, key, ex[key]) = {} THEN ex
    ELSE P2_OnConflict(tbl[CHOOSE k \in RowsByKey(tbl, key, ex[key]) : TRUE], ex, key)

\* lines 97-113 and 115-130: INSERT ... ON CONFLICT (key) DO UPDATE ...
\* RETURNING; fn is the function of its level and exp clauses.  The other
\* unique column is not covered by ON CONFLICT: a value of it that another
\* row holds is a unique_violation.
P2_Upsert(tbl, ex, key, fn) ==
    LET hit == RowsByKey(tbl, key, ex[key])
        other == IF key = "telegram_id" THEN "sol_address" ELSE "telegram_id"
        nr == P2_Written(tbl, ex, key)
    IN  IF \/ ~SqlKnowsFunction(fn)
           \/ nr[other] # Null /\ RowsByKey(tbl, other, nr[other]) \ hit # {}
        THEN Answer(tbl, NoRow, TRUE)
        ELSE Answer(IF hit = {} THEN Append(tbl, nr)
                    ELSE [k \in DOMAIN tbl |-> IF k \in hit THEN nr ELSE tbl[k]],
                    nr, FALSE)

\* the key column of the statement the handler sends, line 96
P2_Key(r) == IF Truthy(r.telegramId) THEN "telegram_id" ELSE "sol_address"

\* POST /api/player/sync, lines 78-138, from request to response
P2_Sync(r) ==
    IF ~Truthy(r.telegramId) /\ ~Truthy(r.solAddress)
    THEN /\ last' = [op |-> "sync", status |-> 400, req |-> r, before |-> NoRow,
                     row |-> NoRow]
         /\ UNCHANGED <<players, now, seen, req, txw, base>>
    ELSE LET ex == P2_Excluded(r)
             key == P2_Key(r)
             before == IF RowsByKey(players, key, ex[key]) = {} THEN NoRow
                       ELSE players[CHOOSE k \in RowsByKey(players, key, ex[key]) : TRUE]
             ans == P2_Upsert(players, ex, key,
                              IF key = "telegram_id" THEN P2_TgGreatest ELSE P2_SolGreatest)
         IN  /\ now < MaxClock
             /\ players' = ans.tbl
             /\ now' = now + 1
             /\ last' = [op |-> "sync", status |-> IF ans.err THEN 500 ELSE 200,
                         req |-> r, before |-> before, row |-> ans.row]
             /\ UNCHANGED <<seen, req, txw, base>>

InitP2 ==
    /\ players = <<>>
    /\ now = 0
    /\ last = [op |-> "none", status |-> 0, req |-> EmptyReq @@ [solAddress |-> Absent],
               before |-> NoRow, row |-> NoRow]
    /\ seen = [t \in TgIds |-> EmptyObj]
    /\ req = NoRequests
    /\ txw = NoRequests
    /\ base = <<>>

NextP2 == \E r \in P2Requests : P2_Sync(r)

SpecP2 == InitP2 /\ [][NextP2]_vars

\* C27: the sol_address branch.  A sync that carries a solAddress and no
\* telegramId is answered 200 with the row of that address: the row it
\* created from the payload when no row held the address, else the stored row
\* with level and exp the greater of the stored and the submitted value.
C27_SolOnlySyncUpserts ==
    (last.op = "sync" /\ ~Truthy(last.req.telegramId) /\ Truthy(last.req.solAddress)) =>
        /\ last.status = 200
        /\ last.row # NoRow
        /\ last.row.sol_address = last.req.solAddress
        /\ last.row \in {players[k] : k \in DOMAIN players}
        /\ last.row.level = IF last.before = NoRow THEN P2_Excluded(last.req).level
                            ELSE Greatest(last.before.level, P2_Excluded(last.req).level)
        /\ last.row.exp = IF last.before = NoRow THEN P2_Excluded(last.req).exp
                          ELSE Greatest(last.before.exp, P2_Excluded(last.req).exp)

-----------------------------------------------------------------------------
(* Responses of the linked-identity sync, src/unnamed/part_003 lines 298-463, *)
(* with a pool that may fail to hand out a client, and every handler that     *)
(* can take a step taking one sooner or later (LiveSpecLk).                   *)

\* line 313: pool.connect() rejects; the await is outside the try block, the
\* rejection leaves the handler and no response is sent
Lk_ConnectFails(i) ==
    /\ req[i].pc = "connect"
    /\ req' = [req EXCEPT ![i].pc = "done", ![i].status = 0]
    /\ UNCHANGED <<players, now, last, seen, txw, base>>

NextLkLive ==
    \/ NextLk
    \/ \E i \in Slots : Lk_ConnectFails(i)

LiveSpecLk == InitLk /\ [][NextLkLive]_vars /\ WF_vars(NextLkLive)

\* C29: every sync is answered.  Every sync request the handler has taken is
\* sooner or later answered with status 200, 400 or 500, also when a
\* statement fails, when the ROLLBACK fails, and when the pool hands out no
\* client.
C29_EverySyncAnswered ==
    \A i \in Slots : (req[i].op = "sync") ~> (req[i].status \in {200, 400, 500})

====
